---- MODULE Spec2Model ----
(***************************************************************************)
(* Model of the contract-generation backend:                               *)
(*   services/contract_service.py  (ContractService)                       *)
(*   services/gemini_client.py     (GeminiClient)                          *)
(*   routes/contracts.py, routes/deploy.py (HTTP handlers)                 *)
(*   models.py                     (Contract row)                          *)
(* Every handler is one atomic action: Flask handles a request             *)
(* synchronously and the service commits or rolls back before returning.   *)
(***************************************************************************)
EXTENDS Integers, Sequences, FiniteSets, TLC

VARIABLES
    legal_rules,   \* ContractService.legal_rules, loaded once at construction
    contracts,     \* the rows of table 'contracts'; the row with id i is contracts[i]
    response,      \* the HTTP response of the request handled last
    model_call,    \* the call that request made to the external generative
                   \* model: << >> if it made none, else <<answer>>
    request,       \* the request whose handling is examined on its own, drawn
                   \* at the start; NoRequest where the handlers draw their own
    commit,        \* what db.session.commit() did in the request handled
                   \* last: "none" if it was not reached, "ok", or "failed"
                   \* (it raised and the session was rolled back)
    sessions       \* the requests that run at the same time, each with the
                   \* place it has reached and the row its session has read;
                   \* << >> where requests are handled one after the other

vars == <<legal_rules, contracts, response, model_call, request, commit, sessions>>

-----------------------------------------------------------------------------
(* Bounds of the model.                                                    *)

\* at most this many rows are ever created
MaxContracts == 1

\* a response text of the generative model has at most this many chunks
MaxTextLen == 3

\* the most chunks inside the string value of an artifact object
MaxStringLen == 3

-----------------------------------------------------------------------------
(* Python values.                                                          *)

\* Python None / JSON null, and a key that the JSON body does not have
None == "None"
Absent == "Absent"

\* dict.get(key): an absent key reads as None
Get(v) == IF v = Absent THEN None ELSE v

\* dict.get(key, ''): an absent key reads as '', a null stays None
GetOrEmpty(v) == IF v = Absent THEN "" ELSE v

\* Python truthiness of an optional string
Truthy(v) == v \notin {None, Absent, ""}

\* str.lower() on the strings of the model
lower(s) ==
    CASE s = "INDIA" -> "india"
      [] s = "EU" -> "eu"
      [] s = "ESCROW" -> "escrow"
      [] s = "INSURANCE" -> "insurance"
      [] OTHER -> s

SetMin(S) == CHOOSE x \in S : \A y \in S : x <= y
SetMax(S) == CHOOSE x \in S : \A y \in S : x >= y

-----------------------------------------------------------------------------
(* The rule table (legal_rules/jurisdictions.yaml as loaded).              *)

\* _load_legal_rules returns {} when the file is missing or malformed
EmptyRules ==
    [jurisdictions |-> << >>, contract_types |-> << >>,
     required_fields |-> [j \in {} |-> << >>]]

\* the table of the repository: three jurisdictions, three contract types;
\* 'eu' additionally requires a description
RepoRules ==
    [jurisdictions |-> <<"india", "eu", "us">>,
     contract_types |-> <<"escrow", "insurance", "settlement">>,
     required_fields |->
        [j \in {"india", "eu", "us"} |->
            IF j = "eu" THEN <<"description">> ELSE << >>]]

RuleSources == {EmptyRules, RepoRules}

\* what yaml.safe_load returns for a file that is a YAML document but no
\* mapping: None for an empty file (or one that holds only comments), a
\* list for a file that holds a top-level sequence
NullRules == [document |-> "null"]
ListRules == [document |-> "sequence"]

\* the rule file as the service finds it at start-up: not there, not
\* parseable as YAML, empty, a top-level sequence, or the file of the
\* repository
RuleFiles == {"missing", "unparseable", "empty", "sequence", "repository"}

\* the files the loader cannot open or parse (open or yaml.safe_load raises)
RaisingRuleFiles == {"missing", "unparseable"}

\* _load_legal_rules, lines 17-29: the document is returned as loaded;
\* only an exception is answered with {}
_load_legal_rules(file) ==
    CASE file \in RaisingRuleFiles -> EmptyRules
      [] file = "empty" -> NullRules
      [] file = "sequence" -> ListRules
      [] OTHER -> RepoRules

\* self.legal_rules.get(...) of line 52 raises AttributeError when the
\* loaded document is None or a list
RulesCrash(rules) == rules \in {NullRules, ListRules}

\* a table whose jurisdictions require more of the request: 'india' a
\* description and a payee address, 'eu' a description
StrictRules ==
    [jurisdictions |-> <<"india", "eu", "us">>,
     contract_types |-> <<"escrow", "insurance", "settlement">>,
     required_fields |->
        [j \in {"india", "eu", "us"} |->
            CASE j = "india" -> <<"description", "payee_address">>
              [] j = "eu" -> <<"description">>
              [] OTHER -> << >>]]

\* the tables that the loaded file may hold
RuleTables == RuleSources \cup {StrictRules}

Range(s) == {s[i] : i \in 1..Len(s)}

-----------------------------------------------------------------------------
(* Request validation: ContractService.validate_request.                   *)

\* the address strings of the model: the two of test_api.py (the second
\* holds an 'H'), and variations of the first in length, prefix and case
GoodAddr == "0x742d35Cc6634C0532925a3b8D4B9b4e4e4e4e4e4"
BadAddr == "0x8ba1f109551bD432803012645Hac136c22C177e9"
ShortAddr == "0x742d35Cc6634C0532925a3b8D4B9b4e4e4e4e4e"
LongAddr == "0x742d35Cc6634C0532925a3b8D4B9b4e4e4e4e4e40"
NoPrefixAddr == "00742d35Cc6634C0532925a3b8D4B9b4e4e4e4e4e4"
UpperPrefixAddr == "0X742d35Cc6634C0532925a3b8D4B9b4e4e4e4e4e4"
LowerAddr == "0xabcdef0123456789abcdef0123456789abcdef01"
UpperAddr == "0xABCDEF0123456789ABCDEF0123456789ABCDEF01"
SpaceAddr == "0x742d35Cc6634C0532925a3b8D4B9b4e4e4e4e4e "
PrefixOnlyAddr == "0x"

AddressTexts ==
    {GoodAddr, BadAddr, ShortAddr, LongAddr, NoPrefixAddr, UpperPrefixAddr,
     LowerAddr, UpperAddr, SpaceAddr, PrefixOnlyAddr}

\* the characters of a string of the model; a string that is no address of
\* the model is read as the empty string
chars(a) ==
    CASE a = GoodAddr ->
            <<"0", "x", "7", "4", "2", "d", "3", "5", "C", "c", "6", "6",
              "3", "4", "C", "0", "5", "3", "2", "9", "2", "5", "a", "3",
              "b", "8", "D", "4", "B", "9", "b", "4", "e", "4", "e", "4",
              "e", "4", "e", "4", "e", "4">>
      [] a = BadAddr ->
            <<"0", "x", "8", "b", "a", "1", "f", "1", "0", "9", "5", "5",
              "1", "b", "D", "4", "3", "2", "8", "0", "3", "0", "1", "2",
              "6", "4", "5", "H", "a", "c", "1", "3", "6", "c", "2", "2",
              "C", "1", "7", "7", "e", "9">>
      [] a = ShortAddr ->
            <<"0", "x", "7", "4", "2", "d", "3", "5", "C", "c", "6", "6",
              "3", "4", "C", "0", "5", "3", "2", "9", "2", "5", "a", "3",
              "b", "8", "D", "4", "B", "9", "b", "4", "e", "4", "e", "4",
              "e", "4", "e", "4", "e">>
      [] a = LongAddr ->
            <<"0", "x", "7", "4", "2", "d", "3", "5", "C", "c", "6", "6",
              "3", "4", "C", "0", "5", "3", "2", "9", "2", "5", "a", "3",
              "b", "8", "D", "4", "B", "9", "b", "4", "e", "4", "e", "4",
              "e", "4", "e", "4", "e", "4", "0">>
      [] a = NoPrefixAddr ->
            <<"0", "0", "7", "4", "2", "d", "3", "5", "C", "c", "6", "6",
              "3", "4", "C", "0", "5", "3", "2", "9", "2", "5", "a", "3",
              "b", "8", "D", "4", "B", "9", "b", "4", "e", "4", "e", "4",
              "e", "4", "e", "4", "e", "4">>
      [] a = UpperPrefixAddr ->
            <<"0", "X", "7", "4", "2", "d", "3", "5", "C", "c", "6", "6",
              "3", "4", "C", "0", "5", "3", "2", "9", "2", "5", "a", "3",
              "b", "8", "D", "4", "B", "9", "b", "4", "e", "4", "e", "4",
              "e", "4", "e", "4", "e", "4">>
      [] a = LowerAddr ->
            <<"0", "x", "a", "b", "c", "d", "e", "f", "0", "1", "2", "3",
              "4", "5", "6", "7", "8", "9", "a", "b", "c", "d", "e", "f",
              "0", "1", "2", "3", "4", "5", "6", "7", "8", "9", "a", "b",
              "c", "d", "e", "f", "0", "1">>
      [] a = UpperAddr ->
            <<"0", "x", "A", "B", "C", "D", "E", "F", "0", "1", "2", "3",
              "4", "5", "6", "7", "8", "9", "A", "B", "C", "D", "E", "F",
              "0", "1", "2", "3", "4", "5", "6", "7", "8", "9", "A", "B",
              "C", "D", "E", "F", "0", "1">>
      [] a = SpaceAddr ->
            <<"0", "x", "7", "4", "2", "d", "3", "5", "C", "c", "6", "6",
              "3", "4", "C", "0", "5", "3", "2", "9", "2", "5", "a", "3",
              "b", "8", "D", "4", "B", "9", "b", "4", "e", "4", "e", "4",
              "e", "4", "e", "4", "e", " ">>
      [] a = PrefixOnlyAddr ->
            <<"0", "x">>
      [] OTHER -> << >>

\* '0123456789abcdefABCDEF'
HexDigits ==
    {"0", "1", "2", "3", "4", "5", "6", "7", "8", "9",
     "a", "b", "c", "d", "e", "f", "A", "B", "C", "D", "E", "F"}

\* the three features the check reads: address.startswith('0x'),
\* len(address), and all(c in HexDigits for c in address[2:])
AddrShapeOf(c) ==
    [starts0x |-> Len(c) >= 2 /\ c[1] = "0" /\ c[2] = "x",
     len |-> Len(c),
     allhex |-> \A i \in 3..Len(c) : c[i] \in HexDigits]

AddrShapes == [a \in AddressTexts |-> AddrShapeOf(chars(a))]

AddrShape(a) == IF a \in AddressTexts THEN AddrShapes[a] ELSE AddrShapeOf(<< >>)

AddrLen == 42

\* an address check that does not look at the length
_is_valid_ethereum_address_any_length(address) ==
    IF ~Truthy(address) THEN FALSE
    ELSE /\ AddrShape(address).starts0x
         /\ AddrShape(address).allhex

_is_valid_ethereum_address(address) ==
    IF ~Truthy(address) THEN FALSE
    ELSE /\ AddrShape(address).starts0x
         /\ AddrShape(address).len = AddrLen
         /\ AddrShape(address).allhex

Err(kind, field, options, jurisdiction) ==
    [kind |-> kind, field |-> field, options |-> options, jurisdiction |-> jurisdiction]

\* [e] if cond else []
When(cond, e) == IF cond THEN <<e>> ELSE << >>

\* a jurisdiction rule that requires nothing
RequiredFieldErrors_none(fields, payload, jurisdiction) == << >>

RECURSIVE RequiredFieldErrors(_, _, _)
\* lines 73-75: one error per field of the jurisdiction's list that the
\* payload lacks or holds empty
RequiredFieldErrors(fields, payload, jurisdiction) ==
    IF fields = << >> THEN << >>
    ELSE When(~Truthy(payload[Head(fields)]),
              Err("required for jurisdiction", Head(fields), << >>, jurisdiction))
         \o RequiredFieldErrors(Tail(fields), payload, jurisdiction)

\* payload.get(k, '').lower() raises AttributeError on a JSON null
ValidationCrashes(payload) ==
    payload.jurisdiction = None \/ payload.contract_type = None

\* a validation that does not require the requirements
validate_request_two_fields(rules, payload) ==
    LET jurisdiction == lower(GetOrEmpty(payload.jurisdiction))
        contract_type == lower(GetOrEmpty(payload.contract_type))
        missing ==
            When(~Truthy(payload.jurisdiction), Err("missing", "jurisdiction", << >>, ""))
            \o When(~Truthy(payload.contract_type), Err("missing", "contract_type", << >>, ""))
        bad_jurisdiction ==
            When(jurisdiction # "" /\ jurisdiction \notin Range(rules.jurisdictions),
                 Err("invalid jurisdiction", "", rules.jurisdictions, ""))
        bad_type ==
            When(contract_type # "" /\ contract_type \notin Range(rules.contract_types),
                 Err("invalid contract type", "", rules.contract_types, ""))
        warnings ==
            When(Truthy(payload.payee_address)
                    /\ ~_is_valid_ethereum_address(payload.payee_address),
                 Err("invalid address format", "payee_address", << >>, ""))
            \o When(Truthy(payload.payer_address)
                    /\ ~_is_valid_ethereum_address(payload.payer_address),
                 Err("invalid address format", "payer_address", << >>, ""))
        specific ==
            IF jurisdiction \in Range(rules.jurisdictions)
            THEN RequiredFieldErrors(rules.required_fields[jurisdiction], payload, jurisdiction)
            ELSE << >>
        errors == missing \o bad_jurisdiction \o bad_type \o specific
    IN  [valid |-> Len(errors) = 0, errors |-> errors, warnings |-> warnings]

\* a validation that stops at the first rule that reports an error
validate_request_early_exit(rules, payload) ==
    LET jurisdiction == lower(GetOrEmpty(payload.jurisdiction))
        contract_type == lower(GetOrEmpty(payload.contract_type))
        missing ==
            When(~Truthy(payload.jurisdiction), Err("missing", "jurisdiction", << >>, ""))
            \o When(~Truthy(payload.contract_type), Err("missing", "contract_type", << >>, ""))
            \o When(~Truthy(payload.requirements), Err("missing", "requirements", << >>, ""))
        bad_jurisdiction ==
            When(jurisdiction # "" /\ jurisdiction \notin Range(rules.jurisdictions),
                 Err("invalid jurisdiction", "", rules.jurisdictions, ""))
        bad_type ==
            When(contract_type # "" /\ contract_type \notin Range(rules.contract_types),
                 Err("invalid contract type", "", rules.contract_types, ""))
        warnings ==
            When(Truthy(payload.payee_address)
                    /\ ~_is_valid_ethereum_address(payload.payee_address),
                 Err("invalid address format", "payee_address", << >>, ""))
            \o When(Truthy(payload.payer_address)
                    /\ ~_is_valid_ethereum_address(payload.payer_address),
                 Err("invalid address format", "payer_address", << >>, ""))
        specific ==
            IF jurisdiction \in Range(rules.jurisdictions)
            THEN RequiredFieldErrors(rules.required_fields[jurisdiction], payload, jurisdiction)
            ELSE << >>
        errors == IF missing # << >> THEN missing
                  ELSE IF bad_jurisdiction # << >> THEN bad_jurisdiction
                  ELSE IF bad_type # << >> THEN bad_type
                  ELSE specific
    IN  [valid |-> Len(errors) = 0, errors |-> errors, warnings |-> warnings]

\* a validation for which a warning makes the request invalid
validate_request_strict_addresses(rules, payload) ==
    LET jurisdiction == lower(GetOrEmpty(payload.jurisdiction))
        contract_type == lower(GetOrEmpty(payload.contract_type))
        missing ==
            When(~Truthy(payload.jurisdiction), Err("missing", "jurisdiction", << >>, ""))
            \o When(~Truthy(payload.contract_type), Err("missing", "contract_type", << >>, ""))
            \o When(~Truthy(payload.requirements), Err("missing", "requirements", << >>, ""))
        bad_jurisdiction ==
            When(jurisdiction # "" /\ jurisdiction \notin Range(rules.jurisdictions),
                 Err("invalid jurisdiction", "", rules.jurisdictions, ""))
        bad_type ==
            When(contract_type # "" /\ contract_type \notin Range(rules.contract_types),
                 Err("invalid contract type", "", rules.contract_types, ""))
        warnings ==
            When(Truthy(payload.payee_address)
                    /\ ~_is_valid_ethereum_address(payload.payee_address),
                 Err("invalid address format", "payee_address", << >>, ""))
            \o When(Truthy(payload.payer_address)
                    /\ ~_is_valid_ethereum_address(payload.payer_address),
                 Err("invalid address format", "payer_address", << >>, ""))
        specific ==
            IF jurisdiction \in Range(rules.jurisdictions)
            THEN RequiredFieldErrors(rules.required_fields[jurisdiction], payload, jurisdiction)
            ELSE << >>
        errors == missing \o bad_jurisdiction \o bad_type \o specific
    IN  [valid |-> Len(errors) = 0 /\ Len(warnings) = 0, errors |-> errors, warnings |-> warnings]

validate_request(rules, payload) ==
    LET jurisdiction == lower(GetOrEmpty(payload.jurisdiction))
        contract_type == lower(GetOrEmpty(payload.contract_type))
        missing ==
            When(~Truthy(payload.jurisdiction), Err("missing", "jurisdiction", << >>, ""))
            \o When(~Truthy(payload.contract_type), Err("missing", "contract_type", << >>, ""))
            \o When(~Truthy(payload.requirements), Err("missing", "requirements", << >>, ""))
        bad_jurisdiction ==
            When(jurisdiction # "" /\ jurisdiction \notin Range(rules.jurisdictions),
                 Err("invalid jurisdiction", "", rules.jurisdictions, ""))
        bad_type ==
            When(contract_type # "" /\ contract_type \notin Range(rules.contract_types),
                 Err("invalid contract type", "", rules.contract_types, ""))
        warnings ==
            When(Truthy(payload.payee_address)
                    /\ ~_is_valid_ethereum_address(payload.payee_address),
                 Err("invalid address format", "payee_address", << >>, ""))
            \o When(Truthy(payload.payer_address)
                    /\ ~_is_valid_ethereum_address(payload.payer_address),
                 Err("invalid address format", "payer_address", << >>, ""))
        specific ==
            IF jurisdiction \in Range(rules.jurisdictions)
            THEN RequiredFieldErrors(rules.required_fields[jurisdiction], payload, jurisdiction)
            ELSE << >>
        errors == missing \o bad_jurisdiction \o bad_type \o specific
    IN  [valid |-> Len(errors) = 0, errors |-> errors, warnings |-> warnings]

-----------------------------------------------------------------------------
(* Response parsing: GeminiClient._parse_response.                         *)
(* A response text is a sequence of chunks:                                *)
(*   "T"  the seven characters ```json                                     *)
(*   "F"  the three characters ```                                         *)
(*   " "  one space character                                              *)
(*   "X"  one character that is no whitespace, backtick, quote or          *)
(*        backslash and no part of a JSON value                            *)
(*   "O"  the text of a JSON object that has solidity_code, deploy_script, *)
(*        tests and a metadata object, none of whose strings holds a fence *)
(*   "M"  the text of a JSON object that lacks the metadata field          *)
(*   "N"  the text of a JSON object with the four fields whose metadata    *)
(*        is a string                                                      *)
(*   "L"  the text of a JSON list of numbers                               *)
(*   "S"  the text of a JSON string                                        *)
(*   "{"  the text of a complete artifact object up to a point inside one  *)
(*        of its string values                                             *)
(*   "}"  the rest of that object's text, from inside the string value on  *)
(* so that <<"{", c1, .., cn, "}">> is the text of a complete artifact     *)
(* object one of whose strings holds the characters of c1 .. cn.           *)

Chunks == {"T", "F", " ", "X", "O", "M", "N", "L", "S", "{", "}"}
Fences == {"T", "F"}
JsonValues == {"O", "M", "N", "L", "S"}

\* the chunks that may stand inside a JSON string value
StringContent == {"T", "F", " ", "X", "L"}

\* all texts of at most n chunks
TextsUpTo(n) == UNION {[1..k -> Chunks] : k \in 0..n}

RECURSIVE lstrip(_)
lstrip(text) ==
    IF text # << >> /\ Head(text) = " " THEN lstrip(Tail(text)) ELSE text

RECURSIVE rstrip(_)
rstrip(text) ==
    IF text # << >> /\ text[Len(text)] = " "
    THEN rstrip(SubSeq(text, 1, Len(text) - 1))
    ELSE text

\* str.strip()
strip(text) == rstrip(lstrip(text))

\* what str.find and str.rfind return when there is no match
NotFound == -1

\* text.find(chunk) over the chunks from index `from` on; a search for the
\* bare fence also matches the backticks that open a "T" chunk
find(text, wanted, from) ==
    LET hits == {i \in from..Len(text) : text[i] \in wanted}
    IN  IF hits = {} THEN NotFound ELSE SetMin(hits)

rfind(text, wanted) ==
    LET hits == {i \in 1..Len(text) : text[i] \in wanted}
    IN  IF hits = {} THEN NotFound ELSE SetMax(hits)

\* text[:-1] of a non-empty text: the last character is cut off, which
\* removes a one-character chunk and leaves of a longer chunk a remainder
\* that is no JSON value any more
DropLastChar(text) ==
    LET last == text[Len(text)]
        front == SubSeq(text, 1, Len(text) - 1)
    IN  IF last \in {"X", " "} THEN front ELSE front \o <<"X">>

\* text[start:end] with start the index of the first chunk taken; end is
\* the index of the first chunk left out, or NotFound for Python's -1
Slice(text, start, end) ==
    IF end = NotFound
    THEN IF start > Len(text) THEN << >>
         ELSE SubSeq(DropLastChar(text), start, Len(DropLastChar(text)))
    ELSE IF end <= start THEN << >> ELSE SubSeq(text, start, end - 1)

\* lines 128-130: the block that follows the tag, from `start` up to the
\* next fence
tagged_block(text, start) == strip(Slice(text, start, find(text, Fences, start)))

\* lines 132-134: the block between the first fence and the last
fenced_block(text) == strip(Slice(text, find(text, Fences, 1) + 1, rfind(text, Fences)))

\* lines 127-136 on the stripped text
candidate(text) ==
    IF \E i \in 1..Len(text) : text[i] = "T"
    THEN tagged_block(text, find(text, {"T"}, 1) + 1)
    ELSE IF \E i \in 1..Len(text) : text[i] = "F"
    THEN fenced_block(text)
    ELSE text

\* lines 126-136: the candidate JSON text
json_text(response_text) == candidate(strip(response_text))

\* json.loads: whitespace around one JSON value is accepted, anything else
\* raises JSONDecodeError.  An artifact object written with the content of
\* one of its strings parses to the same kind of value as "O".
JSONDecodeError == [ok |-> FALSE, value |-> "X"]

json_loads(text) ==
    LET t == strip(text)
    IN  IF Len(t) = 1 /\ t[1] \in JsonValues
        THEN [ok |-> TRUE, value |-> t[1]]
        ELSE IF /\ Len(t) >= 2
                /\ t[1] = "{"
                /\ t[Len(t)] = "}"
                /\ \A i \in 2..(Len(t) - 1) : t[i] \in StringContent
        THEN [ok |-> TRUE, value |-> "O"]
        ELSE JSONDecodeError

\* the required fields that pass the test "field in result" of line 144
\* on the parsed value; a list or a string that holds none of the names
\* passes for no field
ParsedFields(value) ==
    CASE value \in {"O", "N"} -> {"solidity_code", "deploy_script", "tests", "metadata"}
      [] value = "M" -> {"solidity_code", "deploy_script", "tests"}
      [] OTHER -> {}

MetadataIsDict(value) == value = "O"

Artifact(code, script, tests, name) ==
    [solidity_code |-> code, deploy_script |-> script, tests |-> tests,
     metadata |-> [contract_name |-> name]]

\* the artifact a complete JSON object parses to
ParsedArtifact == Artifact("GeneratedCode", "GeneratedDeployScript", "GeneratedTests",
                           "GeneratedContract1")

NoArtifact == Artifact("", "", "", "")

_create_fallback_response ==
    Artifact("BasicContract.sol", "BasicContract.deploy.js", "BasicContract.test.js",
             "BasicContract")

\* a parser whose only handler is the re-raising one of lines 158-160
_parse_response_strict(response_text) ==
    LET parsed == json_loads(json_text(response_text))
        required_fields == {"solidity_code", "deploy_script", "tests", "metadata"}
    IN  IF ~parsed.ok
        THEN [outcome |-> "raise", result |-> NoArtifact]
        ELSE IF ~(required_fields \subseteq ParsedFields(parsed.value))
        THEN [outcome |-> "raise", result |-> NoArtifact]
        ELSE IF ~MetadataIsDict(parsed.value)
        THEN [outcome |-> "raise", result |-> NoArtifact]
        ELSE [outcome |-> "ok", result |-> ParsedArtifact]

\* a parser that answers every exception with the fallback artifact
_parse_response_soft(response_text) ==
    LET parsed == json_loads(json_text(response_text))
        required_fields == {"solidity_code", "deploy_script", "tests", "metadata"}
    IN  IF ~parsed.ok
        THEN [outcome |-> "fallback", result |-> _create_fallback_response]
        ELSE IF ~(required_fields \subseteq ParsedFields(parsed.value))
        THEN [outcome |-> "fallback", result |-> _create_fallback_response]
        ELSE IF ~MetadataIsDict(parsed.value)
        THEN [outcome |-> "fallback", result |-> _create_fallback_response]
        ELSE [outcome |-> "ok", result |-> ParsedArtifact]

\* outcome "ok": parsed and validated; "fallback": JSONDecodeError caught;
\* "raise": the validation of lines 141-150 failed and an Exception leaves
_parse_response(response_text) ==
    LET parsed == json_loads(json_text(response_text))
        required_fields == {"solidity_code", "deploy_script", "tests", "metadata"}
    IN  IF ~parsed.ok
        THEN [outcome |-> "fallback", result |-> _create_fallback_response]
        ELSE IF ~(required_fields \subseteq ParsedFields(parsed.value))
        THEN [outcome |-> "raise", result |-> NoArtifact]
        ELSE IF ~MetadataIsDict(parsed.value)
        THEN [outcome |-> "raise", result |-> NoArtifact]
        ELSE [outcome |-> "ok", result |-> ParsedArtifact]

\* the external call: it fails (network, quota, blocked answer) or it
\* returns a text
ServiceError == <<"E">>
ModelAnswers == {ServiceError} \cup TextsUpTo(MaxTextLen)

\* a client that answers a failed call with the fallback artifact
client_generate_contract_recovering(answer) ==
    IF answer = ServiceError
    THEN [raised |-> FALSE, result |-> _create_fallback_response, fallback |-> TRUE]
    ELSE LET p == _parse_response(answer)
         IN  [raised |-> p.outcome = "raise", result |-> p.result,
              fallback |-> p.outcome = "fallback"]

\* GeminiClient.generate_contract: any exception is re-raised
client_generate_contract(answer) ==
    IF answer = ServiceError
    THEN [raised |-> TRUE, result |-> NoArtifact, fallback |-> FALSE]
    ELSE LET p == _parse_response(answer)
         IN  [raised |-> p.outcome = "raise", result |-> p.result,
              fallback |-> p.outcome = "fallback"]

\* which of the three ways of lines 127-136 a text is taken
FenceForm(answer) ==
    IF answer = ServiceError THEN "none"
    ELSE IF \E i \in 1..Len(answer) : answer[i] = "T" THEN "tagged"
    ELSE IF \E i \in 1..Len(answer) : answer[i] = "F" THEN "fenced"
    ELSE "bare"

\* generate reads nothing of an answer but what the client makes of it: one
\* answer for each result the client can give and each fence form stands
\* for all answers with that result and form
AnswerKey(a) == <<client_generate_contract(a), FenceForm(a)>>

AnswerClasses ==
    {CHOOSE a \in ModelAnswers : AnswerKey(a) = k : k \in {AnswerKey(b) : b \in ModelAnswers}}

-----------------------------------------------------------------------------
(* The stored rows: models.Contract.                                       *)

\* json.dumps(metadata) and its inverse json.loads, on the metadata the
\* model knows: the text of the object holding the contract name
json_dumps(metadata) == <<"{contract_name:", metadata.contract_name, "}">>

\* the texts the column contract_metadata may hold besides: NULL, the empty
\* string << >>, an object without a contract name, a JSON list, and a
\* text cut off before its end
NoText == <<"NULL">>
NamelessMetadata == <<"{", "}">>
ListMetadata == <<"[", "]">>
CutOffMetadata == <<"{contract_name:", "GeneratedContract1">>

\* "if contract.contract_metadata": NULL and '' are falsy
TextTruthy(text) == text \notin {NoText, << >>}

\* json.loads on the column: whether it raises, whether the value is a
\* dict, and the contract name the dict holds (Absent if it holds none)
metadata_loads(text) ==
    CASE Len(text) = 3 /\ text[1] = "{contract_name:" /\ text[3] = "}" ->
            [raises |-> FALSE, is_dict |-> TRUE, contract_name |-> text[2]]
      [] text = NamelessMetadata ->
            [raises |-> FALSE, is_dict |-> TRUE, contract_name |-> Absent]
      [] text = ListMetadata ->
            [raises |-> FALSE, is_dict |-> FALSE, contract_name |-> Absent]
      [] OTHER ->
            [raises |-> TRUE, is_dict |-> FALSE, contract_name |-> Absent]

\* the empty dict {}
EmptyMetadata == [raises |-> FALSE, is_dict |-> TRUE, contract_name |-> Absent]

\* Contract(...) as built by generate_contract, lines 114-126; the columns
\* transaction_hash and contract_address are not set and stay NULL
NewContract(payload, result) ==
    [jurisdiction |-> Get(payload.jurisdiction),
     contract_type |-> Get(payload.contract_type),
     requirements |-> Get(payload.requirements),
     description |-> Get(payload.description),
     payee_address |-> Get(payload.payee_address),
     payer_address |-> Get(payload.payer_address),
     solidity_code |-> result.solidity_code,
     deploy_script |-> result.deploy_script,
     tests |-> result.tests,
     contract_metadata |-> json_dumps(result.metadata),
     status |-> "draft",
     transaction_hash |-> None,
     contract_address |-> None]

\* Contract.to_dict(): the metadata is parsed back, the rest is copied
to_dict(id, c) ==
    [id |-> id,
     jurisdiction |-> c.jurisdiction,
     contract_type |-> c.contract_type,
     requirements |-> c.requirements,
     description |-> c.description,
     payee_address |-> c.payee_address,
     payer_address |-> c.payer_address,
     solidity_code |-> c.solidity_code,
     deploy_script |-> c.deploy_script,
     tests |-> c.tests,
     metadata |-> metadata_loads(c.contract_metadata),
     status |-> c.status,
     transaction_hash |-> c.transaction_hash,
     contract_address |-> c.contract_address]

\* Contract.query.get(contract_id) finds a row
Exists(cs, id) == id \in 1..Len(cs)

-----------------------------------------------------------------------------
(* ContractService.                                                        *)

\* a generate that asks the model before it looks at the validation result
generate_contract_model_first(rules, cs, payload, answer, commit_ok) ==
    IF RulesCrash(rules) \/ ValidationCrashes(payload)
    THEN [outcome |-> "crash", contracts |-> cs, called |-> FALSE, errors |-> << >>]
    ELSE LET validation == validate_request(rules, payload)
             got == client_generate_contract(answer)
         IN  IF ~validation.valid
             THEN [outcome |-> "invalid", contracts |-> cs, called |-> TRUE,
                   errors |-> validation.errors]
             ELSE IF got.raised \/ ~commit_ok
             THEN [outcome |-> "failed", contracts |-> cs, called |-> TRUE,
                   errors |-> << >>]
             ELSE [outcome |-> "created",
                   contracts |-> Append(cs, NewContract(payload, got.result)),
                   called |-> TRUE, errors |-> << >>]

\* generate_contract, lines 103-138.  outcome "invalid": ValueError of line
\* 106; "crash": an exception out of validate_request; "failed": the
\* Exception of line 138 (client failure or failed commit, rolled back);
\* "created": the row is committed.
generate_contract(rules, cs, payload, answer, commit_ok) ==
    IF RulesCrash(rules) \/ ValidationCrashes(payload)
    THEN [outcome |-> "crash", contracts |-> cs, called |-> FALSE, errors |-> << >>]
    ELSE LET validation == validate_request(rules, payload)
         IN  IF ~validation.valid
             THEN [outcome |-> "invalid", contracts |-> cs, called |-> FALSE,
                   errors |-> validation.errors]
             ELSE LET got == client_generate_contract(answer)
                  IN  IF got.raised \/ ~commit_ok
                      THEN [outcome |-> "failed", contracts |-> cs, called |-> TRUE,
                            errors |-> << >>]
                      ELSE [outcome |-> "created",
                            contracts |-> Append(cs, NewContract(payload, got.result)),
                            called |-> TRUE, errors |-> << >>]

\* get_contract, lines 140-146: the row as a list of at most one element
get_contract(cs, id) == IF Exists(cs, id) THEN <<cs[id]>> ELSE << >>

\* a state machine that refuses to leave 'deployed'
update_contract_status_guarded(cs, id, status, transaction_hash, contract_address, commit_ok) ==
    IF ~Exists(cs, id) \/ ~commit_ok \/ (cs[id].status = "deployed" /\ status # "deployed")
    THEN [ok |-> FALSE, contracts |-> cs]
    ELSE [ok |-> TRUE,
          contracts |-> [cs EXCEPT ![id] =
                [@ EXCEPT
                    !.status = status,
                    !.transaction_hash =
                        IF Truthy(transaction_hash) THEN transaction_hash ELSE @,
                    !.contract_address =
                        IF Truthy(contract_address) THEN contract_address ELSE @]]]

\* an update that assigns the two optional values without testing them
update_contract_status_unconditional(cs, id, status, transaction_hash, contract_address, commit_ok) ==
    IF ~Exists(cs, id) \/ ~commit_ok
    THEN [ok |-> FALSE, contracts |-> cs]
    ELSE [ok |-> TRUE,
          contracts |-> [cs EXCEPT ![id] =
                [@ EXCEPT !.status = status,
                          !.transaction_hash = transaction_hash,
                          !.contract_address = contract_address]]]

\* an update that reports success for a row that does not exist
update_contract_status_no_lookup(cs, id, status, transaction_hash, contract_address, commit_ok) ==
    IF ~Exists(cs, id)
    THEN [ok |-> TRUE, contracts |-> cs]
    ELSE IF ~commit_ok
    THEN [ok |-> FALSE, contracts |-> cs]
    ELSE [ok |-> TRUE,
          contracts |-> [cs EXCEPT ![id] =
                [@ EXCEPT
                    !.status = status,
                    !.transaction_hash =
                        IF Truthy(transaction_hash) THEN transaction_hash ELSE @,
                    !.contract_address =
                        IF Truthy(contract_address) THEN contract_address ELSE @]]]

\* an update that stores the status and drops the transaction hash
update_contract_status_drops_hash(cs, id, status, transaction_hash, contract_address, commit_ok) ==
    IF ~Exists(cs, id) \/ ~commit_ok
    THEN [ok |-> FALSE, contracts |-> cs]
    ELSE [ok |-> TRUE,
          contracts |-> [cs EXCEPT ![id] =
                [@ EXCEPT
                    !.status = status,
                    !.contract_address =
                        IF Truthy(contract_address) THEN contract_address ELSE @]]]

\* an update that also clears the description of the row
update_contract_status_clears_description(cs, id, status, transaction_hash, contract_address, commit_ok) ==
    IF ~Exists(cs, id) \/ ~commit_ok
    THEN [ok |-> FALSE, contracts |-> cs]
    ELSE [ok |-> TRUE,
          contracts |-> [cs EXCEPT ![id] =
                [@ EXCEPT
                    !.status = status,
                    !.description = None,
                    !.transaction_hash =
                        IF Truthy(transaction_hash) THEN transaction_hash ELSE @,
                    !.contract_address =
                        IF Truthy(contract_address) THEN contract_address ELSE @]]]

\* an update whose assignments stay when the commit fails
update_contract_status_no_rollback(cs, id, status, transaction_hash, contract_address, commit_ok) ==
    IF ~Exists(cs, id)
    THEN [ok |-> FALSE, contracts |-> cs]
    ELSE [ok |-> commit_ok,
          contracts |-> [cs EXCEPT ![id] =
                [@ EXCEPT
                    !.status = status,
                    !.transaction_hash =
                        IF Truthy(transaction_hash) THEN transaction_hash ELSE @,
                    !.contract_address =
                        IF Truthy(contract_address) THEN contract_address ELSE @]]]

\* an update that clears the hash and the address of a row moved to draft
update_contract_status_clears_on_draft(cs, id, status, transaction_hash, contract_address, commit_ok) ==
    IF ~Exists(cs, id) \/ ~commit_ok
    THEN [ok |-> FALSE, contracts |-> cs]
    ELSE [ok |-> TRUE,
          contracts |-> [cs EXCEPT ![id] =
                [@ EXCEPT
                    !.status = status,
                    !.transaction_hash =
                        IF status = "draft" THEN None
                        ELSE IF Truthy(transaction_hash) THEN transaction_hash ELSE @,
                    !.contract_address =
                        IF status = "draft" THEN None
                        ELSE IF Truthy(contract_address) THEN contract_address ELSE @]]]

\* update_contract_status, lines 190-208.  A failed commit is rolled back
\* and the row keeps its stored values.
update_contract_status(cs, id, status, transaction_hash, contract_address, commit_ok) ==
    IF ~Exists(cs, id)
    THEN [ok |-> FALSE, contracts |-> cs]
    ELSE LET contract ==
                [cs[id] EXCEPT
                    !.status = status,
                    !.transaction_hash =
                        IF Truthy(transaction_hash) THEN transaction_hash ELSE @,
                    !.contract_address =
                        IF Truthy(contract_address) THEN contract_address ELSE @]
         IN  IF commit_ok
             THEN [ok |-> TRUE, contracts |-> [cs EXCEPT ![id] = contract]]
             ELSE [ok |-> FALSE, contracts |-> cs]

\* the list built payer first
constructor_params_payer_first(contract) ==
    (IF Truthy(contract.payer_address) THEN <<contract.payer_address>> ELSE << >>)
    \o (IF Truthy(contract.payee_address) THEN <<contract.payee_address>> ELSE << >>)

\* constructor_params of lines 229-233
constructor_params(contract) ==
    (IF Truthy(contract.payee_address) THEN <<contract.payee_address>> ELSE << >>)
    \o (IF Truthy(contract.payer_address) THEN <<contract.payer_address>> ELSE << >>)

\* the flat estimate of line 241
DeploymentGas == 2000000

\* what get_deployment_data returns for no row and after an exception
NoDeploymentData == << >>

\* get_deployment_data, lines 220-247, as a list of at most one element.
\* An exception of json.loads (line 226) or of metadata.get on a value that
\* is no dict (line 242) is caught at line 245 and None is returned.
get_deployment_data(cs, id) ==
    IF ~Exists(cs, id) THEN NoDeploymentData
    ELSE LET contract == cs[id]
             metadata == IF TextTruthy(contract.contract_metadata)
                         THEN metadata_loads(contract.contract_metadata)
                         ELSE EmptyMetadata
         IN  IF metadata.raises \/ ~metadata.is_dict
             THEN NoDeploymentData
             ELSE <<[contract_id |-> id,
                     solidity_code |-> contract.solidity_code,
                     deploy_script |-> contract.deploy_script,
                     constructor_params |-> constructor_params(contract),
                     metadata |-> metadata,
                     estimated_gas |-> DeploymentGas,
                     contract_name |-> IF metadata.contract_name = Absent
                                       THEN "GeneratedContract"
                                       ELSE metadata.contract_name]>>

-----------------------------------------------------------------------------
(* The HTTP handlers: routes/contracts.py and routes/deploy.py.            *)
(* A handler maps the stored rows and a request to the rows afterwards,    *)
(* the response, and the call made to the external model.                  *)

\* id is the contract id that the body carries, 0 if it carries none
Response(op, id, code, msg) ==
    [op |-> op, id |-> id, code |-> code, msg |-> msg, valid |-> FALSE,
     errors |-> << >>, warnings |-> << >>, contract |-> << >>,
     transaction_hash |-> None, contract_address |-> None,
     deployment_data |-> << >>, constructor_params |-> << >>, estimated_gas |-> 0,
     contracts |-> << >>]

NoCall == << >>

Handled(cs, resp, call) == [contracts |-> cs, response |-> resp, call |-> call]

\* a JSON body that is the empty object (or null): "not payload"
EmptyBody(payload) ==
    \A f \in DOMAIN payload : f = "is_json" \/ payload[f] = Absent

\* POST /generate, routes/contracts.py lines 25-51
route_generate_contract(rules, cs, payload, answer, commit_ok) ==
    IF ~payload.is_json
    THEN Handled(cs, Response("generate", 0, 400, "Request must be JSON"), NoCall)
    ELSE IF EmptyBody(payload)
    THEN Handled(cs, Response("generate", 0, 400, "Empty request body"), NoCall)
    ELSE LET r == generate_contract(rules, cs, payload, answer, commit_ok)
             id == Len(r.contracts)
             call == IF r.called THEN <<answer>> ELSE NoCall
         IN  CASE r.outcome = "created" ->
                    Handled(r.contracts,
                            [Response("generate", id, 201, "Contract generated successfully")
                                EXCEPT !.contract = <<to_dict(id, r.contracts[id])>>],
                            call)
               [] r.outcome = "invalid" ->
                    Handled(r.contracts,
                            [Response("generate", 0, 400, "Validation failed")
                                EXCEPT !.errors = r.errors],
                            call)
               [] OTHER ->
                    Handled(r.contracts,
                            Response("generate", 0, 500, "Internal server error"),
                            call)

\* GET /contracts/<id>, routes/contracts.py lines 92-105
route_get_contract(cs, id) ==
    LET contract == get_contract(cs, id)
    IN  IF contract = << >>
        THEN Handled(cs, Response("get", 0, 404, "Contract not found"), NoCall)
        ELSE Handled(cs,
                     [Response("get", id, 200, "success")
                        EXCEPT !.contract = <<to_dict(id, contract[1])>>],
                     NoCall)

\* a list that lets 'pending' through
valid_statuses_with_pending == {"draft", "deployed", "failed", "pending"}

valid_statuses == {"draft", "deployed", "failed"}

\* PUT /contracts/<id>/status, routes/contracts.py lines 119-152
route_update_contract_status(cs, id, payload, commit_ok) ==
    IF ~payload.is_json
    THEN Handled(cs, Response("status", 0, 400, "Request must be JSON"), NoCall)
    ELSE IF ~Truthy(payload.status)
    THEN Handled(cs, Response("status", 0, 400, "Status is required"), NoCall)
    ELSE IF payload.status \notin valid_statuses
    THEN Handled(cs, Response("status", 0, 400, "Invalid status"), NoCall)
    ELSE LET r == update_contract_status(cs, id, payload.status,
                        Get(payload.transaction_hash), Get(payload.contract_address),
                        commit_ok)
         IN  IF ~r.ok
             THEN Handled(r.contracts,
                          Response("status", 0, 404, "Contract not found or update failed"),
                          NoCall)
             ELSE Handled(r.contracts,
                          Response("status", 0, 200, "Contract status updated successfully"),
                          NoCall)

\* a confirm handler without the test of line 68
confirm_deployment_unchecked(cs, id, payload, commit_ok) ==
    IF ~payload.is_json
    THEN Handled(cs, Response("confirm", 0, 400, "Request must be JSON"), NoCall)
    ELSE LET r == update_contract_status(cs, id, "deployed",
                        Get(payload.transaction_hash), Get(payload.contract_address),
                        commit_ok)
         IN  IF ~r.ok
             THEN Handled(r.contracts,
                          Response("confirm", 0, 404, "Contract not found or update failed"),
                          NoCall)
             ELSE Handled(r.contracts,
                          [Response("confirm", id, 200, "Deployment confirmed successfully")
                              EXCEPT !.transaction_hash = Get(payload.transaction_hash),
                                     !.contract_address = Get(payload.contract_address)],
                          NoCall)

\* POST /deploy/<id>/confirm, routes/deploy.py lines 60-92
confirm_deployment(cs, id, payload, commit_ok) ==
    IF ~payload.is_json
    THEN Handled(cs, Response("confirm", 0, 400, "Request must be JSON"), NoCall)
    ELSE IF ~Truthy(payload.transaction_hash)
    THEN Handled(cs, Response("confirm", 0, 400, "Transaction hash is required"), NoCall)
    ELSE LET r == update_contract_status(cs, id, "deployed",
                        Get(payload.transaction_hash), Get(payload.contract_address),
                        commit_ok)
         IN  IF ~r.ok
             THEN Handled(r.contracts,
                          Response("confirm", 0, 404, "Contract not found or update failed"),
                          NoCall)
             ELSE Handled(r.contracts,
                          [Response("confirm", id, 200, "Deployment confirmed successfully")
                              EXCEPT !.transaction_hash = Get(payload.transaction_hash),
                                     !.contract_address = Get(payload.contract_address)],
                          NoCall)

\* a validation that stores a row for every valid request
validate_contract_request_persisting(rules, cs, payload) ==
    IF ~payload.is_json
    THEN Handled(cs, Response("validate", 0, 400, "Request must be JSON"), NoCall)
    ELSE IF EmptyBody(payload)
    THEN Handled(cs, Response("validate", 0, 400, "Empty request body"), NoCall)
    ELSE IF RulesCrash(rules) \/ ValidationCrashes(payload)
    THEN Handled(cs, Response("validate", 0, 500, "Internal server error"), NoCall)
    ELSE LET validation == validate_request(rules, payload)
         IN  Handled(IF validation.valid
                     THEN Append(cs, NewContract(payload, NoArtifact))
                     ELSE cs,
                     [Response("validate", 0, 200, "success")
                        EXCEPT !.valid = validation.valid,
                               !.errors = validation.errors,
                               !.warnings = validation.warnings],
                     NoCall)

\* POST /validate, routes/contracts.py lines 161-179
validate_contract_request(rules, cs, payload) ==
    IF ~payload.is_json
    THEN Handled(cs, Response("validate", 0, 400, "Request must be JSON"), NoCall)
    ELSE IF EmptyBody(payload)
    THEN Handled(cs, Response("validate", 0, 400, "Empty request body"), NoCall)
    ELSE IF RulesCrash(rules) \/ ValidationCrashes(payload)
    THEN Handled(cs, Response("validate", 0, 500, "Internal server error"), NoCall)
    ELSE LET validation == validate_request(rules, payload)
         IN  Handled(cs,
                     [Response("validate", 0, 200, "success")
                        EXCEPT !.valid = validation.valid,
                               !.errors = validation.errors,
                               !.warnings = validation.warnings],
                     NoCall)

\* Contract.to_summary_dict(), models.py lines 48-58 (created_at left out)
to_summary_dict(id, c) ==
    [id |-> id,
     jurisdiction |-> c.jurisdiction,
     contract_type |-> c.contract_type,
     description |-> c.description,
     status |-> c.status,
     contract_address |-> c.contract_address]

\* a row passes the filters of lines 162-168; a filter that is absent or
\* empty is not applied
PassesFilters(c, filters) ==
    /\ Truthy(filters.jurisdiction) => c.jurisdiction = filters.jurisdiction
    /\ Truthy(filters.contract_type) => c.contract_type = filters.contract_type
    /\ Truthy(filters.status) => c.status = filters.status

\* the ids of the rows that pass, newest first (order_by created_at desc)
RECURSIVE NewestFirst(_, _, _)
NewestFirst(cs, filters, id) ==
    IF id = 0 THEN << >>
    ELSE (IF PassesFilters(cs[id], filters) THEN <<id>> ELSE << >>)
         \o NewestFirst(cs, filters, id - 1)

\* list_contracts, lines 148-173
list_contracts(cs, filters) == NewestFirst(cs, filters, Len(cs))

\* GET /contracts, routes/contracts.py lines 53-87: the table is read only
route_list_contracts(cs, args) ==
    LET ids == list_contracts(cs, args)
        contracts_data == [i \in 1..Len(ids) |-> to_summary_dict(ids[i], cs[ids[i]])]
    IN  Handled(cs,
                [Response("list", 0, 200, "success") EXCEPT !.contracts = contracts_data],
                NoCall)

\* POST /deploy/<id>, routes/deploy.py lines 17-46
prepare_deployment(cs, id) ==
    LET deployment_data == get_deployment_data(cs, id)
    IN  IF deployment_data = NoDeploymentData
        THEN Handled(cs, Response("prepare", 0, 404, "Contract not found or invalid"),
                     NoCall)
        ELSE Handled(cs,
                     [Response("prepare", id, 200, "success")
                        EXCEPT !.deployment_data = deployment_data,
                               !.constructor_params =
                                    deployment_data[1].constructor_params,
                               !.estimated_gas = deployment_data[1].estimated_gas],
                     NoCall)

\* GET /deploy/<id>/bytecode, routes/deploy.py lines 100-121
get_contract_bytecode(cs, id) ==
    LET deployment_data == get_deployment_data(cs, id)
    IN  IF deployment_data = NoDeploymentData
        THEN Handled(cs, Response("bytecode", 0, 404, "Contract not found"), NoCall)
        ELSE Handled(cs,
                     [Response("bytecode", id, 200, "success")
                        EXCEPT !.constructor_params =
                                    deployment_data[1].constructor_params],
                     NoCall)

\* gas_estimates of lines 143-162
gas_estimates ==
    [escrow |-> [base |-> 1500000, india |-> 1600000, eu |-> 1700000, us |-> 1650000],
     insurance |-> [base |-> 2000000, india |-> 2100000, eu |-> 2200000, us |-> 2150000],
     settlement |-> [base |-> 1800000, india |-> 1900000, eu |-> 2000000, us |-> 1950000]]

\* the default of line 165
DefaultGas == 1500000

\* gas_estimates.get(contract_type, {}).get(key, default)
GasLookup(contract_type, key, default) ==
    IF contract_type \in DOMAIN gas_estimates
          /\ key \in DOMAIN gas_estimates[contract_type]
    THEN gas_estimates[contract_type][key]
    ELSE default

\* an estimate that does not look at the jurisdiction
estimate_gas_base_only(cs, payload) ==
    IF ~payload.is_json
    THEN Handled(cs, Response("gas", 0, 400, "Request must be JSON"), NoCall)
    ELSE IF payload.contract_type = None \/ payload.jurisdiction = None
    THEN Handled(cs, Response("gas", 0, 500, "Internal server error"), NoCall)
    ELSE LET contract_type == lower(GetOrEmpty(payload.contract_type))
         IN  Handled(cs,
                     [Response("gas", 0, 200, "success")
                        EXCEPT !.estimated_gas = GasLookup(contract_type, "base", DefaultGas)],
                     NoCall)

\* an estimate that answers every unknown jurisdiction with the default of
\* line 165 instead of the base entry of the contract type
estimate_gas_flat_default(cs, payload) ==
    IF ~payload.is_json
    THEN Handled(cs, Response("gas", 0, 400, "Request must be JSON"), NoCall)
    ELSE IF payload.contract_type = None \/ payload.jurisdiction = None
    THEN Handled(cs, Response("gas", 0, 500, "Internal server error"), NoCall)
    ELSE LET contract_type == lower(GetOrEmpty(payload.contract_type))
             jurisdiction == lower(GetOrEmpty(payload.jurisdiction))
         IN  Handled(cs,
                     [Response("gas", 0, 200, "success")
                        EXCEPT !.estimated_gas =
                                    GasLookup(contract_type, jurisdiction, DefaultGas)],
                     NoCall)

\* POST /deploy/estimate-gas, routes/deploy.py lines 134-178; .lower() on a
\* JSON null raises AttributeError, answered 500
estimate_gas(cs, payload) ==
    IF ~payload.is_json
    THEN Handled(cs, Response("gas", 0, 400, "Request must be JSON"), NoCall)
    ELSE IF payload.contract_type = None \/ payload.jurisdiction = None
    THEN Handled(cs, Response("gas", 0, 500, "Internal server error"), NoCall)
    ELSE LET contract_type == lower(GetOrEmpty(payload.contract_type))
             jurisdiction == lower(GetOrEmpty(payload.jurisdiction))
             base_gas == GasLookup(contract_type, "base", DefaultGas)
             jurisdiction_gas == GasLookup(contract_type, jurisdiction, base_gas)
         IN  Handled(cs,
                     [Response("gas", 0, 200, "success")
                        EXCEPT !.estimated_gas = jurisdiction_gas],
                     NoCall)

-----------------------------------------------------------------------------
(* The requests the model sends.                                           *)

Hash1 == "0xaaa1"
Hash2 == "0xbbb2"
Addr1 == "0xC0DE"

ContractIds == 1..(MaxContracts + 1)

NotJsonGenerate ==
    [is_json : {FALSE}, jurisdiction : {Absent}, contract_type : {Absent},
     requirements : {Absent}, description : {Absent}, payee_address : {Absent},
     payer_address : {Absent}]

GeneratePayloads ==
    [is_json : {TRUE},
     jurisdiction : {Absent, None, "india", "INDIA", "mars"},
     contract_type : {Absent, "escrow", "bogus"},
     requirements : {Absent, "test"},
     description : {Absent},
     payee_address : {Absent, BadAddr},
     payer_address : {Absent}]
    \cup NotJsonGenerate

\* the few generate requests that the lifecycle model sends
PlainPayloads ==
    [is_json : {TRUE},
     jurisdiction : {Absent, "india", "mars"},
     contract_type : {Absent, "escrow"},
     requirements : {"test"},
     description : {Absent},
     payee_address : {Absent},
     payer_address : {Absent}]
    \cup NotJsonGenerate

\* a request body carries only the fields that the handler reads of it
StatusPayloads ==
    [is_json : {TRUE},
     status : {"draft", "deployed", "failed"},
     transaction_hash : {Absent, "", Hash1, Hash2},
     contract_address : {Absent, Addr1}]
    \cup
    [is_json : {TRUE}, status : {Absent, "pending"}, transaction_hash : {Hash1},
     contract_address : {Addr1}]
    \cup
    [is_json : {FALSE}, status : {"deployed"}, transaction_hash : {Hash1},
     contract_address : {Addr1}]

ConfirmPayloads ==
    [is_json : {TRUE},
     transaction_hash : {Hash1, Hash2},
     contract_address : {Absent, Addr1}]
    \cup
    [is_json : {TRUE}, transaction_hash : {Absent, ""}, contract_address : {Addr1}]
    \cup
    [is_json : {FALSE}, transaction_hash : {Hash1}, contract_address : {Addr1}]

\* the bodies sent to POST /validate: every combination of the fields the
\* rules read with few addresses, and valid requests with every address
ValidationPayloads ==
    [is_json : {TRUE},
     jurisdiction : {Absent, None, "", "india", "INDIA", "eu", "mars"},
     contract_type : {Absent, "", "escrow", "ESCROW", "bogus"},
     requirements : {Absent, "", "test"},
     description : {Absent, "", "text"},
     payee_address : {Absent, "", BadAddr},
     payer_address : {Absent, BadAddr}]
    \cup
    [is_json : {TRUE},
     jurisdiction : {"india", "eu"},
     contract_type : {"escrow"},
     requirements : {"test"},
     description : {Absent, "text"},
     payee_address : {Absent, ""} \cup AddressTexts,
     payer_address : {Absent, "", GoodAddr, BadAddr, ShortAddr}]
    \cup NotJsonGenerate

-----------------------------------------------------------------------------
(* The state machine.                                                      *)

NoRequest == [kind |-> "none"]

Init ==
    /\ legal_rules \in RuleSources
    /\ contracts = << >>
    /\ response = Response("none", 0, 0, "")
    /\ model_call = NoCall
    /\ commit = "none"
    /\ sessions = << >>
    /\ request = NoRequest

\* the outcome of a commit that the handler reaches
Committed(commit_ok) == IF commit_ok THEN "ok" ELSE "failed"

ApplyCommitted(h, outcome) ==
    /\ contracts' = h.contracts
    /\ response' = h.response
    /\ model_call' = h.call
    /\ commit' = outcome
    /\ UNCHANGED <<legal_rules, request, sessions>>

\* a handler that does not reach a commit
Apply(h) == ApplyCommitted(h, "none")

\* the inputs a request does not read are not enumerated
ReachesModel(payload) ==
    /\ payload.is_json
    /\ ~EmptyBody(payload)
    /\ ~RulesCrash(legal_rules)
    /\ ~ValidationCrashes(payload)
    /\ validate_request(legal_rules, payload).valid

\* line 130 is reached when the request is valid and the client returned
GenerateReachesCommit(payload, answer) ==
    ReachesModel(payload) /\ ~client_generate_contract(answer).raised

GenerateStep(payload, answer, commit_ok) ==
    /\ Len(contracts) < MaxContracts
    /\ ApplyCommitted(
            route_generate_contract(legal_rules, contracts, payload, answer, commit_ok),
            IF GenerateReachesCommit(payload, answer) THEN Committed(commit_ok) ELSE "none")

Generate(payloads, answers) ==
    \E payload \in payloads :
        IF ReachesModel(payload)
        THEN \E answer \in answers :
                IF client_generate_contract(answer).raised
                THEN GenerateStep(payload, answer, TRUE)
                ELSE \E commit_ok \in BOOLEAN : GenerateStep(payload, answer, commit_ok)
        ELSE GenerateStep(payload, ServiceError, TRUE)

\* the model fails or answers with a complete JSON object
PlainAnswers == {ServiceError, <<"O">>}

GenerateContract == Generate(PlainPayloads, PlainAnswers)

\* any request, and the model fails or answers with any text of the bound
GenerateFromAnyAnswer == Generate(GeneratePayloads, AnswerClasses)

GetStep(id) == Apply(route_get_contract(contracts, id))

GetContract == \E id \in ContractIds : GetStep(id)

\* line 201 is reached when the row is found
ReachesCommit(id) == Exists(contracts, id)

\* PUT status calls the service when the body passes lines 119-140
StatusReachesCommit(id, payload) ==
    /\ payload.is_json
    /\ Truthy(payload.status)
    /\ payload.status \in valid_statuses
    /\ ReachesCommit(id)

StatusStep(id, payload, commit_ok) ==
    ApplyCommitted(
        route_update_contract_status(contracts, id, payload, commit_ok),
        IF StatusReachesCommit(id, payload) THEN Committed(commit_ok) ELSE "none")

UpdateContractStatus ==
    \E id \in ContractIds, payload \in StatusPayloads :
        IF ReachesCommit(id) /\ payload.status \in {"draft", "deployed", "failed"}
        THEN \E commit_ok \in BOOLEAN : StatusStep(id, payload, commit_ok)
        ELSE StatusStep(id, payload, TRUE)

\* confirm calls the service when the body passes lines 61-69
ConfirmReachesCommit(id, payload) ==
    /\ payload.is_json
    /\ Truthy(payload.transaction_hash)
    /\ ReachesCommit(id)

ConfirmStep(id, payload, commit_ok) ==
    ApplyCommitted(
        confirm_deployment(contracts, id, payload, commit_ok),
        IF ConfirmReachesCommit(id, payload) THEN Committed(commit_ok) ELSE "none")

ConfirmDeployment ==
    \E id \in ContractIds, payload \in ConfirmPayloads :
        IF ReachesCommit(id) /\ Truthy(payload.transaction_hash)
        THEN \E commit_ok \in BOOLEAN : ConfirmStep(id, payload, commit_ok)
        ELSE ConfirmStep(id, payload, TRUE)

Next ==
    \/ GenerateContract
    \/ GetContract
    \/ UpdateContractStatus
    \/ ConfirmDeployment

\* the lifecycle of the rows: every handler, the model answering plainly
Spec == Init /\ [][Next]_vars

ValidateStep(payload) ==
    Apply(validate_contract_request(legal_rules, contracts, payload))

ValidateContractRequest == \E payload \in GeneratePayloads : ValidateStep(payload)

NextGen ==
    \/ GenerateFromAnyAnswer
    \/ GetContract
    \/ ValidateContractRequest

\* the generation pipeline: validate, generate on every answer of the
\* model, and fetch
SpecGen == Init /\ [][NextGen]_vars

\* the query strings of GET /contracts
ListArgs ==
    [jurisdiction : {Absent},
     contract_type : {Absent, "insurance"},
     status : {Absent, "deployed"}]

\* generation requests with a description and a payee address
CorePayloads ==
    [is_json : {TRUE},
     jurisdiction : {"india", "mars"},
     contract_type : {"escrow"},
     requirements : {Absent, "test"},
     description : {"terms"},
     payee_address : {GoodAddr},
     payer_address : {Absent}]
    \cup NotJsonGenerate

\* gas requests as the other handlers run
CoreGasPayloads ==
    [is_json : {TRUE}, contract_type : {None, "insurance"}, jurisdiction : {"eu"}]

GenerateCore == Generate(CorePayloads, PlainAnswers)

ValidateCore == \E payload \in CorePayloads : ValidateStep(payload)

ListContracts == \E args \in ListArgs : Apply(route_list_contracts(contracts, args))

PrepareCore == \E id \in ContractIds : Apply(prepare_deployment(contracts, id))

BytecodeCore == \E id \in ContractIds : Apply(get_contract_bytecode(contracts, id))

EstimateGasCore == \E payload \in CoreGasPayloads : Apply(estimate_gas(contracts, payload))

NextCore ==
    \/ GenerateCore
    \/ GetContract
    \/ UpdateContractStatus
    \/ ConfirmDeployment
    \/ ValidateCore
    \/ ListContracts
    \/ PrepareCore
    \/ BytecodeCore
    \/ EstimateGasCore

\* every operation of the service, in any order
SpecCore == Init /\ [][NextCore]_vars

\* One request, drawn at the start, is handled on its own: a generation
\* request is validated and generated from, the model answering with a
\* complete JSON object; a gas request is estimated; a deployment request
\* is answered from the table as found.
GenerationRequests == [kind : {"generation"}, payload : ValidationPayloads]

\* the bodies sent to POST /deploy/estimate-gas
GasPayloads ==
    [is_json : {TRUE},
     contract_type : {Absent, None, "", "escrow", "insurance", "settlement",
                      "INSURANCE", "bogus", "base"},
     jurisdiction : {Absent, None, "", "india", "eu", "us", "EU", "mars", "base"}]
    \cup [is_json : {FALSE}, contract_type : {"escrow"}, jurisdiction : {"india"}]

GasRequests == [kind : {"gas"}, payload : GasPayloads]

\* the values the column contract_metadata holds: what generate stores, and
\* what the column may hold besides
MetadataTexts ==
    {json_dumps(ParsedArtifact.metadata), NoText, << >>, NamelessMetadata,
     ListMetadata, CutOffMetadata}

\* rows as the table may hold them when the service starts: generated from
\* an india/escrow request, with and without addresses
StoredRows ==
    [jurisdiction : {"india"}, contract_type : {"escrow"}, requirements : {"test"},
     description : {None},
     payee_address : {None, "", GoodAddr},
     payer_address : {None, "", GoodAddr, LowerAddr},
     solidity_code : {ParsedArtifact.solidity_code},
     deploy_script : {ParsedArtifact.deploy_script},
     tests : {ParsedArtifact.tests},
     contract_metadata : MetadataTexts,
     status : {"draft"},
     transaction_hash : {None},
     contract_address : {None}]

StoredTables == UNION {[1..k -> StoredRows] : k \in 0..MaxContracts}

DeploymentRequests == [kind : {"deployment"}, id : ContractIds]

InitRequest ==
    /\ response = Response("none", 0, 0, "")
    /\ model_call = NoCall
    /\ commit = "none"
    /\ sessions = << >>
    /\ \/ /\ legal_rules \in RuleTables
          /\ request \in GenerationRequests
          /\ contracts = << >>
       \/ /\ legal_rules \in RuleSources
          /\ request \in GasRequests
          /\ contracts = << >>
       \/ /\ legal_rules \in RuleSources
          /\ request \in DeploymentRequests
          /\ contracts \in StoredTables

ValidateRequest ==
    /\ request.kind = "generation"
    /\ ValidateStep(request.payload)

GenerateRequest ==
    /\ request.kind = "generation"
    /\ \E commit_ok \in BOOLEAN : GenerateStep(request.payload, <<"O">>, commit_ok)

EstimateGas ==
    /\ request.kind = "gas"
    /\ Apply(estimate_gas(contracts, request.payload))

PrepareDeployment ==
    /\ request.kind = "deployment"
    /\ Apply(prepare_deployment(contracts, request.id))

GetContractBytecode ==
    /\ request.kind = "deployment"
    /\ Apply(get_contract_bytecode(contracts, request.id))

NextRequest ==
    \/ ValidateRequest
    \/ GenerateRequest
    \/ EstimateGas
    \/ PrepareDeployment
    \/ GetContractBytecode

\* one request handled on its own
SpecRequest == InitRequest /\ [][NextRequest]_vars

\* The service starts on any rule file and handles one generation request.
InitRules ==
    /\ response = Response("none", 0, 0, "")
    /\ model_call = NoCall
    /\ commit = "none"
    /\ sessions = << >>
    /\ contracts = << >>
    /\ \E file \in RuleFiles : legal_rules = _load_legal_rules(file)
    /\ request \in GenerationRequests

NextRules ==
    \/ ValidateRequest
    \/ GenerateRequest

SpecRules == InitRules /\ [][NextRules]_vars

\* Two status-changing requests on the row with id 1 run at the same
\* time.  Each is PUT status or confirm with a body that passes the checks
\* of its route.
ConcurrentStatusPayloads ==
    [is_json : {TRUE},
     status : {"draft", "deployed", "failed"},
     transaction_hash : {Absent, Hash1},
     contract_address : {Absent, Addr1}]

ConcurrentConfirmPayloads ==
    [is_json : {TRUE},
     transaction_hash : {Hash2},
     contract_address : {Absent, Addr1}]

ConcurrentRequests ==
    [op : {"status"}, payload : ConcurrentStatusPayloads]
    \cup [op : {"confirm"}, payload : ConcurrentConfirmPayloads]

\* the arguments the route passes to update_contract_status:
\* contracts.py 143-148 and deploy.py 72-77
ServiceArguments(req) ==
    [status |-> IF req.op = "confirm" THEN "deployed" ELSE req.payload.status,
     transaction_hash |-> Get(req.payload.transaction_hash),
     contract_address |-> Get(req.payload.contract_address)]

\* the row as it is found
ConcurrentRows ==
    [jurisdiction : {"india"}, contract_type : {"escrow"}, requirements : {"test"},
     description : {None}, payee_address : {None}, payer_address : {None},
     solidity_code : {ParsedArtifact.solidity_code},
     deploy_script : {ParsedArtifact.deploy_script},
     tests : {ParsedArtifact.tests},
     contract_metadata : {json_dumps(ParsedArtifact.metadata)},
     status : {"draft", "deployed"},
     transaction_hash : {None, Hash1},
     contract_address : {None, Addr1}]

Requests == {1, 2}

NotRead == << >>

InitConcurrent ==
    /\ legal_rules = RepoRules
    /\ response = Response("none", 0, 0, "")
    /\ model_call = NoCall
    /\ commit = "none"
    /\ \E row \in ConcurrentRows, first \in ConcurrentRequests, second \in ConcurrentRequests :
            /\ contracts = <<row>>
            /\ request = [kind |-> "concurrent", row |-> row,
                          requests |-> <<first, second>>]
    /\ sessions = [r \in Requests |-> [at |-> "start", contract |-> NotRead]]

\* a write that stores the row as the session read it, with the
\* assignments applied
row_write_as_read(stored, read, args) ==
    [read EXCEPT
        !.status = args.status,
        !.transaction_hash =
            IF Truthy(args.transaction_hash) THEN args.transaction_hash ELSE @,
        !.contract_address =
            IF Truthy(args.contract_address) THEN args.contract_address ELSE @]

\* lines 195-201 as one atomic write to the stored row of the columns the
\* request assigns
row_write(stored, read, args) ==
    [stored EXCEPT
        !.status = args.status,
        !.transaction_hash =
            IF Truthy(args.transaction_hash) THEN args.transaction_hash ELSE @,
        !.contract_address =
            IF Truthy(args.contract_address) THEN args.contract_address ELSE @]

\* line 191: the session of request r reads the row
ReadRow(r) ==
    /\ sessions[r].at = "start"
    /\ sessions' = [sessions EXCEPT ![r] = [at |-> "read", contract |-> contracts[1]]]
    /\ UNCHANGED <<legal_rules, contracts, response, model_call, request, commit>>

\* lines 195-203: the session of request r writes and commits, and the
\* route answers 200
WriteRow(r) ==
    /\ sessions[r].at = "read"
    /\ contracts' = [contracts EXCEPT ![1] =
            row_write(contracts[1], sessions[r].contract,
                      ServiceArguments(request.requests[r]))]
    /\ response' = IF request.requests[r].op = "confirm"
                   THEN confirm_deployment(contracts, 1, request.requests[r].payload, TRUE).response
                   ELSE route_update_contract_status(contracts, 1,
                                request.requests[r].payload, TRUE).response
    /\ commit' = "ok"
    /\ sessions' = [sessions EXCEPT ![r].at = "done"]
    /\ UNCHANGED <<legal_rules, model_call, request>>

Read == \E r \in Requests : ReadRow(r)

Write == \E r \in Requests : WriteRow(r)

NextConcurrent ==
    \/ Read
    \/ Write

\* two status-changing requests on one row, their reads and writes in
\* every order
SpecConcurrent == InitConcurrent /\ [][NextConcurrent]_vars

-----------------------------------------------------------------------------
(* Properties.  The claims about one request are stated of the handler    *)
(* applied in every reachable state to every request of the model: the    *)
(* actions above take exactly these steps.  commit_ok = TRUE is a request *)
(* whose db.session.commit() succeeds.                                    *)

RecognizedStatuses == {"draft", "deployed", "failed"}

Row(id) == contracts[id]

\* the request reaches validate_request and validate_request returns
Validated(payload) ==
    payload.is_json /\ ~EmptyBody(payload) /\ ~ValidationCrashes(payload)

\* C1: every row whose status is draft has no transaction hash and no
\* contract address.
C1_DraftHasNoHashNoAddress ==
    \A id \in 1..Len(contracts) :
        Row(id).status = "draft" =>
            Row(id).transaction_hash = None /\ Row(id).contract_address = None

\* C2: a status update whose status is not draft, deployed or failed is
\* answered 400 and changes no row, whatever hash and address it carries.
C2_InvalidStatusRejected ==
    \A id \in ContractIds, payload \in StatusPayloads, commit_ok \in BOOLEAN :
        (payload.is_json /\ payload.status \notin RecognizedStatuses) =>
            LET h == route_update_contract_status(contracts, id, payload, commit_ok)
            IN  h.response.code = 400 /\ h.contracts = contracts

\* a 'pending' update carrying Hash1 was just rejected on a deployed row
\* that still holds Hash2
C2_Witness ==
    /\ response.op = "status" /\ response.code = 400
    /\ response.msg = "Invalid status"
    /\ Len(contracts) = 1
    /\ Row(1).status = "deployed"
    /\ Row(1).transaction_hash = Hash2

\* C3: a successful generate leaves a draft row (also in its response); a
\* confirm of that row with a non-empty hash h whose commit succeeds is
\* answered 200; a fetch after it shows status deployed and hash h.
C3_GenerateConfirmFetch ==
    /\ (response.op = "generate" /\ response.code = 201) =>
            /\ Row(response.id).status = "draft"
            /\ response.contract[1].status = "draft"
    /\ \A payload \in PlainPayloads :
        ReachesModel(payload) =>
          \A answer \in PlainAnswers :
            LET g == route_generate_contract(legal_rules, contracts, payload, answer, TRUE)
                id == g.response.id
            IN  g.response.code = 201 =>
                  /\ g.contracts[id].status = "draft"
                  /\ \A p \in ConfirmPayloads :
                        (p.is_json /\ Truthy(p.transaction_hash)) =>
                          LET c == confirm_deployment(g.contracts, id, p, TRUE)
                              f == route_get_contract(c.contracts, id)
                          IN  /\ c.response.code = 200
                              /\ f.contracts = c.contracts
                              /\ f.response.code = 200
                              /\ f.response.contract[1].status = "deployed"
                              /\ f.response.contract[1].transaction_hash
                                    = p.transaction_hash

\* a fetch has just shown a deployed row with the hash of its confirm
C3_Witness ==
    /\ response.op = "get" /\ response.code = 200
    /\ response.contract[1].status = "deployed"
    /\ response.contract[1].transaction_hash = Hash1
    /\ response.contract[1].contract_address = None

\* C4: for an existing row in any status and any requested status among
\* draft, deployed, failed, a status update whose commit succeeds is
\* answered 200 and the row then has the requested status.
C4_NoTransitionBlocked ==
    \A id \in ContractIds, payload \in StatusPayloads :
        (Exists(contracts, id) /\ payload.is_json
            /\ payload.status \in RecognizedStatuses) =>
            LET h == route_update_contract_status(contracts, id, payload, TRUE)
            IN  h.response.code = 200 /\ h.contracts[id].status = payload.status

\* a row that carries hash and address (it was deployed) is draft again
\* after a successful update
C4_Witness ==
    /\ response.op = "status" /\ response.code = 200
    /\ Len(contracts) = 1
    /\ Row(1).status = "draft"
    /\ Row(1).transaction_hash = Hash1
    /\ Row(1).contract_address = Addr1

\* the status updates of the model, and those that carry an empty address
C5_Payloads ==
    StatusPayloads
    \cup [is_json : {TRUE}, status : RecognizedStatuses,
          transaction_hash : {Absent, Hash1}, contract_address : {""}]

\* C5 as stated: after a successful status update the stored hash is the
\* supplied one if the body has one, and the old one otherwise; likewise
\* the address.
C5_SuppliedOverwrites ==
    \A id \in ContractIds, payload \in C5_Payloads, commit_ok \in BOOLEAN :
        (Exists(contracts, id) /\ payload.is_json) =>
            LET h == route_update_contract_status(contracts, id, payload, commit_ok)
            IN  h.response.code = 200 =>
                  /\ h.contracts[id].transaction_hash =
                        IF payload.transaction_hash # Absent
                        THEN payload.transaction_hash
                        ELSE Row(id).transaction_hash
                  /\ h.contracts[id].contract_address =
                        IF payload.contract_address # Absent
                        THEN payload.contract_address
                        ELSE Row(id).contract_address

\* C5 amended: after a successful status update the stored hash is the
\* supplied one if a non-empty one is supplied, and the old one if none or
\* an empty one is supplied; likewise, independently, the address.  An
\* update to deployed that supplies neither is accepted when its commit
\* succeeds and leaves both as they were.
C5_NonEmptySuppliedOverwrites ==
    \A id \in ContractIds, payload \in C5_Payloads :
        (Exists(contracts, id) /\ payload.is_json) =>
            /\ \A commit_ok \in BOOLEAN :
                LET h == route_update_contract_status(contracts, id, payload, commit_ok)
                IN  h.response.code = 200 =>
                      /\ h.contracts[id].transaction_hash =
                            IF Truthy(payload.transaction_hash)
                            THEN payload.transaction_hash
                            ELSE Row(id).transaction_hash
                      /\ h.contracts[id].contract_address =
                            IF Truthy(payload.contract_address)
                            THEN payload.contract_address
                            ELSE Row(id).contract_address
            /\ (payload.status = "deployed" /\ payload.transaction_hash = Absent
                    /\ payload.contract_address = Absent) =>
                LET h == route_update_contract_status(contracts, id, payload, TRUE)
                IN  /\ h.response.code = 200
                    /\ h.contracts[id].transaction_hash = Row(id).transaction_hash
                    /\ h.contracts[id].contract_address = Row(id).contract_address

\* a row was moved to deployed by an update and has neither hash nor
\* address
C5_Witness ==
    /\ response.op = "status" /\ response.code = 200
    /\ Len(contracts) = 1
    /\ Row(1).status = "deployed"
    /\ Row(1).transaction_hash = None
    /\ Row(1).contract_address = None

\* C6: a status update or a confirm for an id without a row fails, creates
\* no row and changes no row; it is answered 404 whenever its body passes
\* the handler's own checks (a recognized status, a non-empty hash).
C6_UnknownIdNotFound ==
    \A id \in ContractIds :
        ~Exists(contracts, id) =>
            /\ \A payload \in StatusPayloads, commit_ok \in BOOLEAN :
                LET h == route_update_contract_status(contracts, id, payload, commit_ok)
                IN  /\ h.contracts = contracts
                    /\ h.response.code \in {400, 404}
                    /\ (payload.is_json /\ payload.status \in RecognizedStatuses)
                            => h.response.code = 404
            /\ \A payload \in ConfirmPayloads, commit_ok \in BOOLEAN :
                LET h == confirm_deployment(contracts, id, payload, commit_ok)
                IN  /\ h.contracts = contracts
                    /\ h.response.code \in {400, 404}
                    /\ (payload.is_json /\ Truthy(payload.transaction_hash))
                            => h.response.code = 404

\* a confirm was answered 404 while no row exists at all
C6_Witness ==
    /\ response.op = "confirm" /\ response.code = 404
    /\ contracts = << >>

\* C7: a confirm without a non-empty transaction hash is answered 400 and
\* changes no row; a confirm with one, for an existing row and with a
\* successful commit, sets the status to deployed from any status.
C7_ConfirmNeedsHash ==
    \A id \in ContractIds, payload \in ConfirmPayloads :
        payload.is_json =>
            /\ ~Truthy(payload.transaction_hash) =>
                \A commit_ok \in BOOLEAN :
                    LET h == confirm_deployment(contracts, id, payload, commit_ok)
                    IN  h.response.code = 400 /\ h.contracts = contracts
            /\ (Truthy(payload.transaction_hash) /\ Exists(contracts, id)) =>
                LET h == confirm_deployment(contracts, id, payload, TRUE)
                IN  h.response.code = 200 /\ h.contracts[id].status = "deployed"

\* a confirm without a hash was just rejected on a row in status failed
C7_Witness ==
    /\ response.op = "confirm" /\ response.code = 400
    /\ response.msg = "Transaction hash is required"
    /\ Len(contracts) = 1
    /\ Row(1).status = "failed"

\* C8: a generate whose validation reports an error invokes no model,
\* stores no row and is answered 400; a row is stored only by a request
\* that passed validation (only such a request reaches the model) and
\* whose model call returned an artifact.
C8_ValidationBeforeGeneration ==
    \A payload \in GeneratePayloads :
        IF ReachesModel(payload)
        THEN \A answer \in AnswerClasses, commit_ok \in BOOLEAN :
                LET h == route_generate_contract(legal_rules, contracts, payload, answer,
                                                 commit_ok)
                IN  /\ h.call = <<answer>>
                    /\ h.contracts # contracts => ~client_generate_contract(answer).raised
        ELSE \A answer \in PlainAnswers :
                LET h == route_generate_contract(legal_rules, contracts, payload, answer, TRUE)
                IN  /\ h.call = NoCall
                    /\ h.contracts = contracts
                    /\ Validated(payload) => h.response.code = 400

\* a generate was just answered with validation errors under the loaded
\* rule table, without a model call and without a row
C8_Witness ==
    /\ legal_rules = RepoRules
    /\ response.op = "generate" /\ response.code = 400
    /\ response.msg = "Validation failed" /\ Len(response.errors) >= 2
    /\ model_call = NoCall
    /\ contracts = << >>

\* C9: when the call to the model fails, generate is answered 500 and the
\* rows are what they were.
C9_ServiceErrorAborts ==
    \A payload \in GeneratePayloads :
        ReachesModel(payload) =>
            \A commit_ok \in BOOLEAN :
                LET h == route_generate_contract(legal_rules, contracts, payload,
                                                 ServiceError, commit_ok)
                IN  /\ h.response.code = 500
                    /\ h.contracts = contracts
                    /\ h.call = <<ServiceError>>

\* the model call of the last generate failed
C9_Witness ==
    /\ model_call = <<ServiceError>>
    /\ response.op = "generate" /\ response.code = 500
    /\ contracts = << >>

\* every text of the bound whose candidate json.loads rejects parses to
\* the fallback artifact: four fields, metadata naming "BasicContract"
UnparseableGivesFallback ==
    \A text \in TextsUpTo(MaxTextLen) :
        ~json_loads(json_text(text)).ok =>
            /\ _parse_response(text).outcome = "fallback"
            /\ DOMAIN _parse_response(text).result
                    = {"solidity_code", "deploy_script", "tests", "metadata"}
            /\ _parse_response(text).result.solidity_code = "BasicContract.sol"
            /\ _parse_response(text).result.metadata.contract_name = "BasicContract"

\* C10: a received text whose candidate is no JSON parses to the fallback
\* artifact and raises nothing; generate on such an answer, with a
\* successful commit, stores a draft row that carries the fallback
\* artifact.
C10_FallbackPersisted ==
    /\ UnparseableGivesFallback
    /\ \A payload \in GeneratePayloads :
        ReachesModel(payload) =>
          \A answer \in AnswerClasses :
            (answer # ServiceError /\ ~json_loads(json_text(answer)).ok) =>
                LET h == route_generate_contract(legal_rules, contracts, payload, answer, TRUE)
                    id == Len(contracts) + 1
                IN  /\ h.response.code = 201
                    /\ Len(h.contracts) = id
                    /\ h.contracts[id].status = "draft"
                    /\ h.contracts[id].solidity_code = "BasicContract.sol"
                    /\ h.contracts[id].deploy_script = "BasicContract.deploy.js"
                    /\ h.contracts[id].tests = "BasicContract.test.js"
                    /\ metadata_loads(h.contracts[id].contract_metadata).contract_name
                            = "BasicContract"

\* the model answered with a tagged fence that holds no JSON and the row
\* stored for it carries the fallback artifact
C10_Witness ==
    /\ response.op = "generate" /\ response.code = 201
    /\ model_call # NoCall /\ FenceForm(model_call[1]) = "tagged"
    /\ ~json_loads(json_text(model_call[1])).ok
    /\ Row(response.id).status = "draft"
    /\ Row(response.id).solidity_code = "BasicContract.sol"

\* whether the parsed value is a JSON object holding the four fields with
\* an object for metadata
CompleteArtifact(value) ==
    /\ {"solidity_code", "deploy_script", "tests", "metadata"} \subseteq ParsedFields(value)
    /\ MetadataIsDict(value)

\* every text of the bound whose candidate parses as JSON to a value that
\* is no complete artifact ends parsing in the re-raised exception
IncompleteRaises ==
    \A text \in TextsUpTo(MaxTextLen) :
        LET parsed == json_loads(json_text(text))
        IN  (parsed.ok /\ ~CompleteArtifact(parsed.value)) =>
                /\ _parse_response(text).outcome = "raise"
                /\ _parse_response(text).result # _create_fallback_response
                /\ client_generate_contract(text).raised

\* answers whose JSON is an object without metadata, an object whose
\* metadata is a string, a list and a string, given bare, in a tagged
\* fence and in a bare fence
IncompleteAnswers ==
    UNION {{<<v>>, <<"T", v, "F">>, <<"F", v, "F">>} : v \in {"M", "N", "L", "S"}}

\* C11: a received text whose candidate parses as JSON but is no object
\* holding solidity_code, deploy_script, tests and an object for metadata
\* ends parsing in a raised exception, never in the fallback artifact, and
\* generate on such an answer is answered 500 and stores no row.
C11_IncompleteIsHardFailure ==
    /\ IncompleteRaises
    /\ \A payload \in GeneratePayloads :
        ReachesModel(payload) =>
          \A answer \in IncompleteAnswers \cup AnswerClasses :
            (/\ answer # ServiceError
             /\ json_loads(json_text(answer)).ok
             /\ ~CompleteArtifact(json_loads(json_text(answer)).value)) =>
                \A commit_ok \in BOOLEAN :
                    LET h == route_generate_contract(legal_rules, contracts, payload,
                                                     answer, commit_ok)
                    IN  /\ h.response.code = 500
                        /\ h.contracts = contracts
                        /\ h.call = <<answer>>

\* the model answered with JSON that is no complete artifact and the
\* generate was answered 500 with nothing stored
C11_Witness ==
    /\ response.op = "generate" /\ response.code = 500
    /\ model_call # NoCall /\ model_call[1] # ServiceError
    /\ json_loads(json_text(model_call[1])).ok
    /\ ~CompleteArtifact(json_loads(json_text(model_call[1])).value)
    /\ contracts = << >>

\* the valid JSON texts of the model: the one-chunk values, and complete
\* artifact objects one of whose strings holds up to MaxStringLen chunks
JsonTexts ==
    {<<v>> : v \in JsonValues}
    \cup {<<"{">> \o inner \o <<"}">> :
                inner \in UNION {[1..k -> StringContent] : k \in 0..MaxStringLen}}

HoldsFence(J) == \E i \in 1..Len(J) : J[i] \in Fences

\* C12: for every valid JSON text J, fences inside its strings included,
\* the response ```json J ``` parses to the same result as J alone.
\* Generate on the fenced answer accordingly stores and answers what
\* generate on the bare answer does.
C12_FencedEqualsBare ==
    \A J \in JsonTexts :
        LET fenced == <<"T">> \o J \o <<"F">>
        IN  /\ _parse_response(fenced) = _parse_response(J)
            /\ \A payload \in PlainPayloads :
                    ReachesModel(payload) =>
                        LET hf == route_generate_contract(legal_rules, contracts,
                                                          payload, fenced, TRUE)
                            hb == route_generate_contract(legal_rules, contracts,
                                                          payload, J, TRUE)
                        IN  /\ hf.contracts = hb.contracts
                            /\ hf.response = hb.response

\* the same for the JSON texts none of whose strings holds a fence
C12_FenceFreeFencedEqualsBare ==
    \A J \in JsonTexts :
        ~HoldsFence(J) =>
            /\ json_loads(J).ok
            /\ _parse_response(<<"T">> \o J \o <<"F">>) = _parse_response(J)
            /\ _parse_response(<<"T", " ">> \o J \o <<" ", "F">>) = _parse_response(J)

-----------------------------------------------------------------------------
(* Validation.  The request is the one drawn at the start; the result is   *)
(* read off the answer to POST /validate and off validate_request itself.  *)

RequiredOfAll == {"jurisdiction", "contract_type", "requirements"}

\* the errors of one kind about one field
ErrorsOf(errors, kind, field) ==
    {i \in 1..Len(errors) : errors[i].kind = kind /\ errors[i].field = field}

\* the drawn request was validated and answered with a validation result
ValidationAnswered ==
    /\ request.kind = "generation"
    /\ response.op = "validate"
    /\ response.code = 200

\* jurisdiction and contract type as the rules compare them
AsCompared(v) == lower(GetOrEmpty(v))

OneMissingErrorEach(payload, errors, valid) ==
    /\ \A f \in RequiredOfAll :
            Cardinality(ErrorsOf(errors, "missing", f))
                = IF Truthy(payload[f]) THEN 0 ELSE 1
    /\ (\E f \in RequiredOfAll : ~Truthy(payload[f])) => ~valid

\* C13: the errors of a validation hold exactly one "missing field" error
\* for each of jurisdiction, contract_type and requirements that is absent
\* or empty, and the result is invalid when one of them is.
C13_MissingFieldErrors ==
    /\ (request.kind = "generation" /\ ~ValidationCrashes(request.payload)) =>
            LET v == validate_request(legal_rules, request.payload)
            IN  OneMissingErrorEach(request.payload, v.errors, v.valid)
    /\ (/\ request.kind = "generation"
        /\ response.op = "validate"
        /\ Validated(request.payload)) => response.code = 200
    /\ ValidationAnswered =>
            OneMissingErrorEach(request.payload, response.errors, response.valid)

\* a validation answered with two missing-field errors
C13_Witness ==
    /\ ValidationAnswered
    /\ request.payload.jurisdiction = Absent
    /\ request.payload.requirements = ""
    /\ Truthy(request.payload.contract_type)
    /\ Cardinality({i \in 1..Len(response.errors) : response.errors[i].kind = "missing"}) = 2
    /\ ~response.valid

\* what the rules report of an unknown jurisdiction and an unknown type
UnknownJurisdictionError(rules) == Err("invalid jurisdiction", "", rules.jurisdictions, "")
UnknownTypeError(rules) == Err("invalid contract type", "", rules.contract_types, "")

Occurrences(errors, e) == Cardinality({i \in 1..Len(errors) : errors[i] = e})

UnknownJurisdiction(payload) ==
    AsCompared(payload.jurisdiction) \notin Range(legal_rules.jurisdictions)

UnknownType(payload) ==
    AsCompared(payload.contract_type) \notin Range(legal_rules.contract_types)

\* C14: the rules are evaluated independently: a request whose jurisdiction
\* is no key of the jurisdiction table gets an error listing every valid
\* jurisdiction, one whose contract type is no key of the type table an
\* error listing every valid type, and with both unknown and requirements
\* missing all three errors are in the result.
C14_UnknownListsOptions ==
    ValidationAnswered =>
        LET payload == request.payload
            errors == response.errors
        IN  /\ (payload.jurisdiction # Absent /\ UnknownJurisdiction(payload)) =>
                    Occurrences(errors, UnknownJurisdictionError(legal_rules)) = 1
            /\ (payload.contract_type # Absent /\ UnknownType(payload)) =>
                    Occurrences(errors, UnknownTypeError(legal_rules)) = 1

\* C14 as the code has it: the two table rules apply to a jurisdiction and
\* a contract type that are not empty.
C14_NonEmptyUnknownListsOptions ==
    ValidationAnswered =>
        LET payload == request.payload
            errors == response.errors
        IN  /\ Occurrences(errors, UnknownJurisdictionError(legal_rules))
                    = IF Truthy(payload.jurisdiction) /\ UnknownJurisdiction(payload)
                      THEN 1 ELSE 0
            /\ Occurrences(errors, UnknownTypeError(legal_rules))
                    = IF Truthy(payload.contract_type) /\ UnknownType(payload)
                      THEN 1 ELSE 0
            /\ (/\ Truthy(payload.jurisdiction) /\ UnknownJurisdiction(payload)
                /\ Truthy(payload.contract_type) /\ UnknownType(payload)
                /\ ~Truthy(payload.requirements)) =>
                    /\ Len(errors) = 3
                    /\ Cardinality(ErrorsOf(errors, "missing", "requirements")) = 1
                    /\ ~response.valid

\* both unknown and requirements missing: three errors under the table of
\* the repository, each table error listing the three options
C14_Witness ==
    /\ ValidationAnswered
    /\ legal_rules = RepoRules
    /\ request.payload.jurisdiction = "mars"
    /\ request.payload.contract_type = "bogus"
    /\ request.payload.requirements = Absent
    /\ Len(response.errors) = 3
    /\ \E i \in 1..3 : response.errors[i].options = <<"india", "eu", "us">>
    /\ \E i \in 1..3 : response.errors[i].options = <<"escrow", "insurance", "settlement">>

\* C15: for a request with a known jurisdiction, a known contract type
\* (both compared in lower case) and non-empty requirements, the result is
\* valid exactly when every field of the jurisdiction's required-fields
\* list is present and non-empty, and each such field that is not adds one
\* error naming the field and the jurisdiction.
C15_RequiredFieldsDecideValidity ==
    (/\ ValidationAnswered
     /\ ~UnknownJurisdiction(request.payload)
     /\ ~UnknownType(request.payload)
     /\ Truthy(request.payload.requirements)) =>
        LET payload == request.payload
            jurisdiction == AsCompared(payload.jurisdiction)
            required == Range(legal_rules.required_fields[jurisdiction])
        IN  /\ response.valid <=> \A f \in required : Truthy(payload[f])
            /\ \A f \in required :
                    Occurrences(response.errors,
                                Err("required for jurisdiction", f, << >>, jurisdiction))
                        = IF Truthy(payload[f]) THEN 0 ELSE 1
            /\ Len(response.errors)
                    = Cardinality({f \in required : ~Truthy(payload[f])})

\* 'INDIA' under the strict table without description and payee address:
\* two errors naming the fields and 'india'
C15_Witness ==
    /\ ValidationAnswered
    /\ legal_rules = StrictRules
    /\ request.payload.jurisdiction = "INDIA"
    /\ request.payload.contract_type = "ESCROW"
    /\ request.payload.description = ""
    /\ request.payload.payee_address = Absent
    /\ ~response.valid
    /\ Len(response.errors) = 2
    /\ response.errors[2].field = "payee_address"
    /\ response.errors[2].jurisdiction = "india"

AddressFields == {"payee_address", "payer_address"}

\* the request with every address it gives replaced by a well-formed one
WithGoodAddresses(payload) ==
    [f \in DOMAIN payload |->
        IF f \in AddressFields /\ Truthy(payload[f]) THEN GoodAddr ELSE payload[f]]

Malformed(address) == Truthy(address) /\ ~_is_valid_ethereum_address(address)

WarningsOf(warnings, field) ==
    {i \in 1..Len(warnings) : warnings[i].field = field}

\* C16: a result is valid exactly when it has no errors, and warnings do
\* not count: a request with malformed addresses has the errors and the
\* validity of the same request with well-formed ones and one warning more
\* for each malformed address; generate on it, when it is valid, calls the
\* model and stores a draft row.
C16_WarningsNeverInvalidate ==
    /\ ValidationAnswered =>
        LET payload == request.payload
            good == validate_request(legal_rules, WithGoodAddresses(payload))
        IN  /\ response.valid <=> response.errors = << >>
            /\ response.errors = good.errors
            /\ response.valid = good.valid
            /\ good.warnings = << >>
            /\ Len(response.warnings)
                    = Cardinality({f \in AddressFields : Malformed(payload[f])})
    /\ (/\ request.kind = "generation"
        /\ Validated(request.payload)
        /\ validate_request(legal_rules, WithGoodAddresses(request.payload)).valid) =>
            /\ LET h == route_generate_contract(legal_rules, << >>, request.payload,
                                                <<"O">>, TRUE)
               IN  /\ h.response.code = 201
                   /\ Len(h.contracts) = 1
                   /\ h.contracts[1].status = "draft"
            /\ response.op = "generate" =>
                    /\ model_call = <<(<<"O">>)>>
                    /\ response.code \in {201, 500}
                    /\ response.code = 201 =>
                        /\ Row(response.id).status = "draft"
                        /\ Row(response.id).payee_address = Get(request.payload.payee_address)
                        /\ Row(response.id).payer_address = Get(request.payload.payer_address)

\* a request with two malformed addresses was generated from: a draft row
\* holds the addresses as sent
C16_Witness ==
    /\ request.kind = "generation"
    /\ response.op = "generate" /\ response.code = 201
    /\ request.payload.payee_address = BadAddr
    /\ request.payload.payer_address = ShortAddr
    /\ Row(response.id).status = "draft"
    /\ Row(response.id).payee_address = BadAddr

\* "0x" followed by exactly 40 hexadecimal digits
IsHexAddress(address) ==
    LET c == chars(address)
    IN  /\ Len(c) = 42
        /\ SubSeq(c, 1, 2) = <<"0", "x">>
        /\ Range(SubSeq(c, 3, Len(c))) \subseteq HexDigits

ShapeCheckIsHexAddress ==
    \A a \in AddressTexts \cup {""} : _is_valid_ethereum_address(a) <=> IsHexAddress(a)

-----------------------------------------------------------------------------
(* Deployment data and gas.  The request is the one drawn at the start,    *)
(* the table is as it was found.                                           *)

DeploymentAnswered ==
    /\ request.kind = "deployment"
    /\ response.op \in {"prepare", "bytecode"}

\* C18: the constructor parameters of the deployment data are <<payee,
\* payer>> when both addresses are set, <<payee>> or <<payer>> when one is,
\* and empty when neither is; the payee never follows the payer.
C18_PayeeBeforePayer ==
    (DeploymentAnswered /\ response.code = 200) =>
        LET contract == contracts[request.id]
            payee == contract.payee_address
            payer == contract.payer_address
            params == response.constructor_params
        IN  /\ (Truthy(payee) /\ Truthy(payer)) => params = <<payee, payer>>
            /\ (Truthy(payee) /\ ~Truthy(payer)) => params = <<payee>>
            /\ (~Truthy(payee) /\ Truthy(payer)) => params = <<payer>>
            /\ (~Truthy(payee) /\ ~Truthy(payer)) => params = << >>
            /\ response.op = "prepare" =>
                    response.deployment_data[1].constructor_params = params

\* deployment data prepared for a row with two different addresses
C18_Witness ==
    /\ DeploymentAnswered
    /\ response.op = "prepare" /\ response.code = 200
    /\ contracts[request.id].payee_address = GoodAddr
    /\ contracts[request.id].payer_address = LowerAddr
    /\ response.constructor_params = <<GoodAddr, LowerAddr>>

\* the stored metadata is absent or json.loads rejects it
AbsentOrUnparseable(text) == ~TextTruthy(text) \/ metadata_loads(text).raises

\* C19: deriving deployment data returns nothing only when no row has the
\* id; for a row whose metadata is absent or unparseable it returns data
\* with the empty object for metadata and "GeneratedContract" for the name.
C19_NothingOnlyForUnknownId ==
    (request.kind = "deployment" /\ response.op = "prepare") =>
        /\ response.code \in {200, 404}
        /\ response.code = 404 <=> ~Exists(contracts, request.id)
        /\ (/\ Exists(contracts, request.id)
            /\ AbsentOrUnparseable(contracts[request.id].contract_metadata)) =>
                /\ response.code = 200
                /\ response.deployment_data[1].metadata = EmptyMetadata
                /\ response.deployment_data[1].contract_name = "GeneratedContract"

\* the part of C19 that holds: data is returned for a row whose metadata is
\* NULL or empty, with {} for metadata and the default name, and nothing is
\* returned for an unknown id
C19_AbsentMetadataGivesDefaults ==
    (request.kind = "deployment" /\ response.op = "prepare") =>
        /\ response.code \in {200, 404}
        /\ ~Exists(contracts, request.id) => response.code = 404
        /\ (/\ Exists(contracts, request.id)
            /\ ~TextTruthy(contracts[request.id].contract_metadata)) =>
                /\ response.code = 200
                /\ response.deployment_data[1].metadata = EmptyMetadata
                /\ response.deployment_data[1].contract_name = "GeneratedContract"

\* the entries of the table, written out
GasEntries ==
    {<<"escrow", "india", 1600000>>, <<"escrow", "eu", 1700000>>,
     <<"escrow", "us", 1650000>>,
     <<"insurance", "india", 2100000>>, <<"insurance", "eu", 2200000>>,
     <<"insurance", "us", 2150000>>,
     <<"settlement", "india", 1900000>>, <<"settlement", "eu", 2000000>>,
     <<"settlement", "us", 1950000>>}

GasAnswered ==
    /\ request.kind = "gas"
    /\ response.op = "gas"
    /\ response.code = 200

\* C20: the gas estimate for a known contract type and a jurisdiction
\* listed under it is that jurisdiction's entry of the table (2,200,000
\* for insurance/eu), and for a contract type that is not in the table it
\* is 1,500,000 whatever the jurisdiction.
C20_GasIsTableLookup ==
    /\ (/\ request.kind = "gas" /\ response.op = "gas"
        /\ request.payload.is_json
        /\ request.payload.contract_type # None
        /\ request.payload.jurisdiction # None) => response.code = 200
    /\ GasAnswered =>
        LET contract_type == AsCompared(request.payload.contract_type)
            jurisdiction == AsCompared(request.payload.jurisdiction)
        IN  /\ \A e \in GasEntries :
                    (contract_type = e[1] /\ jurisdiction = e[2]) =>
                        response.estimated_gas = e[3]
            /\ contract_type \notin {"escrow", "insurance", "settlement"} =>
                    response.estimated_gas = 1500000

\* insurance/eu was estimated at 2,200,000
C20_Witness ==
    /\ GasAnswered
    /\ request.payload.contract_type = "INSURANCE"
    /\ request.payload.jurisdiction = "eu"
    /\ response.estimated_gas = 2200000

\* the contract types of the table and the keys listed under each of them
GasTypes == {"escrow", "insurance", "settlement"}
GasJurisdictions == {"india", "eu", "us"}

\* the base entry of each contract type, written out
GasBases ==
    {<<"escrow", 1500000>>, <<"insurance", 2000000>>, <<"settlement", 1800000>>}

\* a lookup key of the answered request is unknown
UnknownGasKey ==
    \/ AsCompared(request.payload.contract_type) \notin GasTypes
    \/ AsCompared(request.payload.jurisdiction) \notin GasJurisdictions

\* C21 as stated: the gas estimate is 1,500,000 whenever the contract type
\* is not in the table or the jurisdiction is not one of the jurisdictions
\* listed under the contract type.
C21_UnknownKeyGivesEscrowBase ==
    (GasAnswered /\ UnknownGasKey) => response.estimated_gas = 1500000

\* C21 amended: the gas estimate is 1,500,000 when the contract type is not
\* in the table; for a contract type of the table and a jurisdiction that
\* is not india, eu or us it is the base entry of that contract type
\* (1,500,000 for escrow, 2,000,000 for insurance, 1,800,000 for
\* settlement).
C21_UnknownKeyGivesTypeBase ==
    GasAnswered =>
        LET contract_type == AsCompared(request.payload.contract_type)
            jurisdiction == AsCompared(request.payload.jurisdiction)
        IN  /\ contract_type \notin GasTypes => response.estimated_gas = 1500000
            /\ \A b \in GasBases :
                    (contract_type = b[1] /\ jurisdiction \notin GasJurisdictions) =>
                        response.estimated_gas = b[2]

\* insurance under an unknown jurisdiction was estimated at its own base
C21_Witness ==
    /\ GasAnswered
    /\ request.payload.contract_type = "insurance"
    /\ request.payload.jurisdiction = "mars"
    /\ response.estimated_gas = 2000000

-----------------------------------------------------------------------------
(* The rows over sequences of operations.                                  *)

\* the columns generate_contract sets and update_contract_status leaves
CreatedFields ==
    {"jurisdiction", "contract_type", "requirements", "description",
     "payee_address", "payer_address", "solidity_code", "deploy_script",
     "tests", "contract_metadata"}

\* the columns update_contract_status assigns
LifecycleFields == {"status", "transaction_hash", "contract_address"}

\* the row id is the same in every column of F before and after the step
SameIn(id, F) == \A f \in F : contracts'[id][f] = contracts[id][f]

\* one step: no row is removed, no row changes outside the lifecycle
\* columns, and those change only in a step of PUT status or confirm
RowsKept ==
    /\ Len(contracts') >= Len(contracts)
    /\ \A id \in 1..Len(contracts) :
            /\ SameIn(id, CreatedFields)
            /\ ~SameIn(id, LifecycleFields) => response'.op \in {"status", "confirm"}

\* C22: once a record is created its jurisdiction, contract type,
\* requirements, description, addresses, generated texts and metadata never
\* change; status, transaction hash and contract address change only
\* through a status update or a confirm; no operation removes a record.
C22_CreatedFieldsNeverChange == [][RowsKept]_vars

\* a record created with a description and a payee address, taken to
\* deployed with a hash and then to failed, still with both
C22_Witness ==
    /\ Len(contracts) >= 1
    /\ contracts[1].description = "terms"
    /\ contracts[1].payee_address = GoodAddr
    /\ contracts[1].status = "failed"
    /\ contracts[1].transaction_hash = Hash2
    /\ response.op = "list"

\* the handlers that only read: validate, list, fetch, prepare deployment,
\* bytecode, estimate-gas
ReadOperations == {"validate", "list", "get", "prepare", "bytecode", "gas"}

\* the step was taken by a handler that only reads
ReadStep == response'.op \in ReadOperations

\* C23: validate and the other read operations (list, fetch, prepare
\* deployment, bytecode, estimate-gas) persist nothing: the set of records
\* and every field of every record are the same after the call as before,
\* for valid and invalid requests alike.
C23_ReadsPersistNothing == [][ReadStep => contracts' = contracts]_vars

\* a valid request was validated while the table held a deployed row, and
\* the row is as PUT status left it
C23_Witness ==
    /\ response.op = "validate"
    /\ response.code = 200
    /\ response.valid
    /\ Len(contracts) = 1
    /\ contracts[1].status = "deployed"
    /\ contracts[1].transaction_hash = Hash1

\* an invalid request was validated while the table held a row
C23_InvalidValidated ==
    /\ response.op = "validate"
    /\ response.code = 200
    /\ ~response.valid
    /\ Len(contracts) = 1

-----------------------------------------------------------------------------
(* The rule file.                                                          *)

\* the drawn request names a jurisdiction or a contract type, as strings
NamesJurisdictionOrType(payload) ==
    /\ payload.is_json
    /\ ~ValidationCrashes(payload)
    /\ Truthy(payload.jurisdiction) \/ Truthy(payload.contract_type)

\* the answer reports the request invalid, with the unknown-jurisdiction
\* error if it names a jurisdiction and the unknown-type error if it names
\* a contract type
ReportedUnknown(payload, errors) ==
    /\ Truthy(payload.jurisdiction) =>
            Occurrences(errors, UnknownJurisdictionError(EmptyRules)) = 1
    /\ Truthy(payload.contract_type) =>
            Occurrences(errors, UnknownTypeError(EmptyRules)) = 1

\* the service with an empty rule set: validation answers 200 and invalid
\* with the unknown errors, generation answers 400 with the same errors,
\* no row is stored
DegradesToUnknown ==
    /\ contracts = << >>
    /\ (request.kind = "generation" /\ NamesJurisdictionOrType(request.payload)) =>
            /\ response.op = "validate" =>
                    /\ response.code = 200
                    /\ ~response.valid
                    /\ ReportedUnknown(request.payload, response.errors)
            /\ response.op = "generate" =>
                    /\ response.code = 400
                    /\ ReportedUnknown(request.payload, response.errors)

\* C24: when the rule source is missing or malformed, loading yields the
\* empty rule set, every request with a non-empty jurisdiction or contract
\* type is reported invalid (unknown jurisdiction or type) without
\* validation crashing, and no generate request creates a record.
C24_FailedLoadDegrades ==
    legal_rules # RepoRules => (legal_rules = EmptyRules /\ DegradesToUnknown)

\* the part of C24 that holds: when the rule file is missing or is no YAML
\* the loaded rule set is empty and the service degrades as stated
C24_RaisingLoadDegrades ==
    (\E file \in RaisingRuleFiles : legal_rules = _load_legal_rules(file)) =>
        (legal_rules = EmptyRules /\ DegradesToUnknown)

\* a request that names india and escrow was refused by the service
\* running on the empty rule set
C24_EmptyRulesRefuse ==
    /\ legal_rules = EmptyRules
    /\ request.kind = "generation"
    /\ request.payload.jurisdiction = "india"
    /\ request.payload.contract_type = "escrow"
    /\ response.op = "generate"
    /\ response.code = 400

\* the same request crashed validation in the service running on an empty
\* rule file
C24_NullRulesCrash ==
    /\ legal_rules = NullRules
    /\ request.kind = "generation"
    /\ request.payload.jurisdiction = "india"
    /\ request.payload.contract_type = "escrow"
    /\ response.op = "validate"
    /\ response.code = 500

\* the answers that report success: 200, and 201 of generate
SuccessCodes == {200, 201}

\* a step whose commit raised: the table is what it was and the answer
\* reports a failure
FailedCommitKeepsRows ==
    commit' = "failed" =>
        /\ contracts' = contracts
        /\ response'.code \notin SuccessCodes

\* C25: if the commit of a status update fails, the operation reports
\* failure and the record's status, transaction hash and contract address
\* keep their previous values; if the commit of a generate fails, no
\* record, complete or partial, becomes visible.
C25_FailedCommitChangesNothing == [][FailedCommitKeepsRows]_vars

\* the commit of a status update or confirm on the one row failed, the
\* request was answered 404 and the row is still a draft without a hash
C25_Witness ==
    /\ commit = "failed"
    /\ response.op \in {"status", "confirm"}
    /\ response.code = 404
    /\ Len(contracts) = 1
    /\ contracts[1].status = "draft"
    /\ contracts[1].transaction_hash = None
    /\ contracts[1].contract_address = None

\* the commit of a generate failed, the request was answered 500 and the
\* table holds no row
C25_GenerateRolledBack ==
    /\ commit = "failed"
    /\ response.op = "generate"
    /\ response.code = 500
    /\ contracts = << >>

\* C26: in every state reachable through generate, PUT status and confirm
\* the status of every record is one of draft, deployed, failed, and a
\* record that generate has just created is a draft.
C26_StatusAlwaysRecognized ==
    /\ \A id \in 1..Len(contracts) : contracts[id].status \in RecognizedStatuses
    /\ (response.op = "generate" /\ response.code = 201) =>
            /\ contracts[Len(contracts)].status = "draft"
            /\ response.contract[1].status = "draft"

\* PUT status has just moved the one row to failed
C26_Witness ==
    /\ response.op = "status"
    /\ response.code = 200
    /\ commit = "ok"
    /\ Len(contracts) = 1
    /\ contracts[1].status = "failed"

\* generate has just created a row
C26_DraftCreated ==
    /\ response.op = "generate"
    /\ response.code = 201
    /\ Len(contracts) = 1

\* the column f of row id in one step: a value that is set stays set, and
\* a value changes only to a non-empty one, in a committed PUT status or
\* confirm
NeverCleared(id, f) ==
    /\ Truthy(contracts[id][f]) => Truthy(contracts'[id][f])
    /\ contracts'[id][f] # contracts[id][f] =>
            /\ Truthy(contracts'[id][f])
            /\ response'.op \in {"status", "confirm"}
            /\ commit' = "ok"

\* a confirm that changed the hash stored the hash it was sent
ConfirmStoresSupplied(id) ==
    (response'.op = "confirm"
        /\ contracts'[id].transaction_hash # contracts[id].transaction_hash) =>
            contracts'[id].transaction_hash = response'.transaction_hash

\* C27: a record's transaction hash and contract address are never
\* cleared: once non-empty they are non-empty in every later state,
\* whatever status updates follow, and they change only by being
\* overwritten with another supplied non-empty value.
C27_HashAndAddressNeverCleared ==
    [][\A id \in 1..Len(contracts) :
            /\ id <= Len(contracts')
            /\ NeverCleared(id, "transaction_hash")
            /\ NeverCleared(id, "contract_address")
            /\ ConfirmStoresSupplied(id)]_vars

\* a row that was given a hash and an address has just been moved back to
\* draft and holds both
C27_Witness ==
    /\ response.op = "status"
    /\ response.code = 200
    /\ Len(contracts) = 1
    /\ contracts[1].status = "draft"
    /\ contracts[1].transaction_hash = Hash2
    /\ contracts[1].contract_address = Addr1

-----------------------------------------------------------------------------
(* Two requests at the same time.                                          *)

\* the lifecycle columns of a row
Lifecycle(row) ==
    [status |-> row.status,
     transaction_hash |-> row.transaction_hash,
     contract_address |-> row.contract_address]

\* update_contract_status run to its end on the table cs for request req
AfterRequest(cs, req) ==
    update_contract_status(cs, 1, ServiceArguments(req).status,
                           ServiceArguments(req).transaction_hash,
                           ServiceArguments(req).contract_address, TRUE).contracts

\* the row after the requests first and then second, one after the other
SerialResult(row, first, second) ==
    Lifecycle(AfterRequest(AfterRequest(<<row>>, first), second)[1])

BothDone == \A r \in Requests : sessions[r].at = "done"

====
